---- MODULE Spec2Model ----
(***************************************************************************)
(* Verification model of the Mesozoic-Genesis entity/component storage     *)
(* engine (Core/ECS/MemoryChunk.h, Core/ECS/Archetype.h,                   *)
(* Core/ECS/EntityManager.h, Core/ECS/ComponentArray.h) and of its job     *)
(* system (Core/Threading/JobSystem.h).                                    *)
(*                                                                         *)
(* Identifiers and indices are 0-based as in the C++ source; TLA+          *)
(* sequences are 1-based, so archetypes[a + 1] is the source's             *)
(* archetypes[a], and likewise for chunks and entityIds.                   *)
(***************************************************************************)
EXTENDS Integers, Sequences, FiniteSets, TLC

VARIABLES
    availableEntities,     \* std::queue<EntityID>: the free pool, head first
    livingEntityCount,     \* uint32_t
    archetypes,            \* std::vector<std::unique_ptr<Archetype>>
    signatureToArchetype,  \* std::unordered_map<uint64_t, uint32_t>
    entityLocations,       \* std::vector<EntityLocation>, indexed by EntityID
    lastCall,              \* the caller's view of the last manager call: op, ret
    archIds,               \* the caller's record: schema multiset -> id returned
    localArch,             \* an Archetype constructed on its own (TestECSMemory)
    held,                  \* handles a subsystem kept of entities since destroyed
    iteration,             \* the position of a ForEachInArchetype call in its
                           \* loops, and its caller's record of the callbacks
    packedData,            \* ComponentArray: std::vector<T>
    entityToIndex,         \* ComponentArray: std::unordered_map<uint32_t, size_t>
    indexToEntity,         \* ComponentArray: std::unordered_map<size_t, uint32_t>
    inserted,              \* the caller's record: the (entity, value) pairs
                           \* it inserted and has not removed, oldest first
    workers,               \* JobSystem: std::vector<std::thread>, each thread's
                           \* position in the worker loop and its local task
    jobs,                  \* JobSystem: std::queue<std::function<void()>>
    stop,                  \* JobSystem: std::atomic<bool>
    activeJobs,            \* JobSystem: int, guarded by completionMutex
    queueMutex,            \* JobSystem: std::mutex, "free" or its holder
    mainPc,                \* the position of the thread that owns the JobSystem
    pushed,                \* the number of jobs PushJob has accepted
    finished,              \* the jobs whose task has run to completion
    counter,               \* the test's std::atomic<int> the jobs increment
    futures                \* the shared state of each job's packaged_task: the
                           \* value its std::future yields, once it is set

ecs == <<availableEntities, livingEntityCount, archetypes,
         signatureToArchetype, entityLocations>>
\* The state of a ComponentArray<T> and of its caller.
array == <<packedData, entityToIndex, indexToEntity, inserted>>
\* The state of the EntityManager, of its caller and of a lone Archetype.
manager == <<ecs, lastCall, archIds, localArch>>
\* The state of a JobSystem, of its owner thread and of the jobs' counter.
jobSystem == <<workers, jobs, stop, activeJobs, queueMutex, mainPc, pushed,
               finished, counter, futures>>
vars == <<availableEntities, livingEntityCount, archetypes,
          signatureToArchetype, entityLocations, lastCall, archIds, localArch,
          held, iteration, array, jobSystem>>

----------------------------------------------------------------------------
(* Bounds of the model.                                                    *)

\* EntityManager::MAX_ENTITIES is 100000 in the source; the model runs the
\* same code with a small pool so that exhaustion and recycling are reached.
MAX_ENTITIES == 3
\* RegisterArchetype is not offered once this many archetypes exist.
MaxArchetypes == 2
\* CreateEntity is not offered when it would allocate a chunk beyond this.
MaxChunks == 2
\* Clients store component bytes only while fewer bytes than this are written.
MaxWritten == 1
\* InsertData is not offered once a ComponentArray holds this many entries.
MaxStored == 3
\* std::thread::hardware_concurrency() is at most this.
MaxThreads == 2
\* PushJob is not called once this many jobs were accepted (the test: 100).
MaxJobs == 3

----------------------------------------------------------------------------
(* Program constants.                                                      *)

CHUNK_SIZE == 16384
\* sizeof(ChunkHeader): uint32_t + uint16_t + uint16_t
ChunkHeaderSize == 8
\* sizeof(MemoryChunk::data)
DataBytes == CHUNK_SIZE - ChunkHeaderSize
\* static_cast<EntityID>(-1), i.e. 0xFFFFFFFF; written -1 here because the
\* model checker's integers are 32-bit signed.
INVALID_ENTITY == -1
\* static_cast<size_t>(-1), GetComponentOffset's "not found".
NotFound == -1
\* uint16_t wrap-around
U16 == 65536
\* 2654435761 = 0x9E3779B1, least significant byte first.
KnuthBytes == <<177, 121, 55, 158>>

----------------------------------------------------------------------------
(* Inputs.                                                                 *)

ComponentInfo(id, size, alignment) ==
    [id |-> id, size |-> size, alignment |-> alignment]

MeshA    == ComponentInfo(5, 4094, 2)    \* with MeshB: two entities per chunk
MeshB    == ComponentInfo(6, 4094, 2)
Oversize == ComponentInfo(4, 16377, 1)   \* one byte more than a chunk holds

\* Three small components, as the test's Position and Velocity (three
\* floats each) and one float: 584 entities per chunk.
Position == ComponentInfo(4, 12, 4)
Velocity == ComponentInfo(5, 12, 4)
Health   == ComponentInfo(6, 4, 4)

\* The component vectors offered to RegisterArchetype.
Schemas ==
    { <<MeshA, MeshB>>, <<MeshB, MeshA>>, <<Oversize>> }

ComponentIds == {c.id : c \in UNION {{s[i] : i \in DOMAIN s} : s \in Schemas}}

\* Components whose ids collide under ComputeSignature:
\* 70 * K xor 71 * K = 104 * K xor 105 * K for K = 2654435761.
Comp70     == ComponentInfo(70, 4094, 2)
Comp71     == ComponentInfo(71, 4094, 2)
Comp104    == ComponentInfo(104, 12, 4)
Comp105    == ComponentInfo(105, 12, 4)
\* The id of Comp70 with another size.
Comp70Wide == ComponentInfo(70, 8188, 2)

\* The component vectors offered to a manager whose schemas collide.
CollideSchemas ==
    { <<Comp70, Comp71>>, <<Comp104, Comp105>>, <<Comp70Wide, Comp71>>,
      <<Comp71>> }

CollideIds ==
    {c.id : c \in UNION {{s[i] : i \in DOMAIN s} : s \in CollideSchemas}}

\* A component id that no schema contains.
AbsentId == 7

\* Byte values a client stores through a component pointer.
ByteVals == {165}

Range(s) == {s[i] : i \in DOMAIN s}

\* The multiset of a component vector: descriptor -> multiplicity.
BagOf(components) ==
    [c \in Range(components) |->
        Cardinality({i \in DOMAIN components : components[i] = c})]

----------------------------------------------------------------------------
(* 64-bit unsigned arithmetic for ComputeSignature.  The model checker's  *)
(* integers are 32-bit, so a product is computed bytewise and a uint64_t   *)
(* is held as the set of its 1-bit positions, 0..63; XOR is then the       *)
(* symmetric difference.                                                   *)

ByteOf(n, i) == (n \div (256 ^ i)) % 256

\* static_cast<uint64_t>(c.id): a 32-bit id zero-extended.
Bytes32(n) == <<ByteOf(n, 0), ByteOf(n, 1), ByteOf(n, 2), ByteOf(n, 3)>>

RECURSIVE ColumnSum(_, _, _, _)
\* Sum of a[j] * b[i - j] over the byte positions j..3 of two 4-byte numbers.
ColumnSum(a, b, i, j) ==
    IF j > 3 THEN 0
    ELSE (IF i - j \in 0..3 THEN a[j + 1] * b[i - j + 1] ELSE 0)
         + ColumnSum(a, b, i, j + 1)

RECURSIVE MulBytes(_, _, _, _)
\* Schoolbook product of two 4-byte numbers as 8 bytes, least significant
\* first (the product of two 32-bit numbers is below 2^64).
MulBytes(a, b, i, carry) ==
    IF i = 8 THEN <<>>
    ELSE LET s == ColumnSum(a, b, i, 0) + carry
         IN  <<s % 256>> \o MulBytes(a, b, i + 1, s \div 256)

BitsOf(bytes) ==
    {8 * (i - 1) + b : i \in 1..8, b \in 0..7} \cap
    {n \in 0..63 : (bytes[(n \div 8) + 1] \div (2 ^ (n % 8))) % 2 = 1}

\* static_cast<uint64_t>(c.id) * 2654435761ULL, for the ids in use.
KnuthHash ==
    [id \in ComponentIds \cup CollideIds |->
        BitsOf(MulBytes(Bytes32(id), KnuthBytes, 0, 0))]

\* Mutant of Xor64: the hash overwrites the signature ("=" for "^=").
Xor64Overwrite(s, t) == t

Xor64(s, t) == (s \ t) \cup (t \ s)

RECURSIVE SignatureFrom(_, _, _)
SignatureFrom(components, i, sig) ==
    IF i > Len(components) THEN sig
    ELSE SignatureFrom(components, i + 1,
                       Xor64(sig, KnuthHash[components[i].id]))

\* EntityManager::ComputeSignature
ComputeSignature(components) == SignatureFrom(components, 1, {})

----------------------------------------------------------------------------
(* MemoryChunk and Archetype.                                              *)

\* MemoryChunk::MemoryChunk.  The data array is not initialised by the
\* constructor: data maps the offsets that have been written to their byte,
\* and an offset outside DOMAIN data holds an indeterminate byte.
MemoryChunk(archId, cap) ==
    [header    |-> [archetypeId |-> archId, count |-> 0, capacity |-> cap],
     data      |-> <<>>,
     entityIds |-> <<>>]

RECURSIVE TotalSize(_, _)
TotalSize(components, i) ==
    IF i > Len(components) THEN 0
    ELSE components[i].size + TotalSize(components, i + 1)

\* Mutant of EntitiesPerChunk: the chunk header is not subtracted.
EntitiesPerChunkWholeChunk(entitySize) == (CHUNK_SIZE \div entitySize) % U16

\* entitiesPerChunk = static_cast<uint16_t>(availableSpace / entitySize)
EntitiesPerChunk(entitySize) == (DataBytes \div entitySize) % U16

\* Archetype::Archetype
Archetype(id, comps) ==
    [id               |-> id,
     components       |-> comps,
     chunks           |-> <<>>,
     entitySize       |-> TotalSize(comps, 1),
     entitiesPerChunk |-> EntitiesPerChunk(TotalSize(comps, 1))]

RECURSIVE OffsetFrom(_, _, _, _, _)
OffsetFrom(arch, compId, index, i, offset) ==
    IF i > Len(arch.components) THEN NotFound
    ELSE IF arch.components[i].id = compId
         THEN offset + arch.components[i].size * index
         ELSE OffsetFrom(arch, compId, index, i + 1,
                  offset + arch.components[i].size * arch.entitiesPerChunk)

\* Mutant of GetComponentOffset: components interleaved per entity (array
\* of structures), addressed by the entity stride.
GetComponentOffsetInterleaved(arch, compId, index) ==
    LET at == {i \in DOMAIN arch.components : arch.components[i].id = compId}
        k  == CHOOSE i \in at : \A j \in at : i <= j
    IN  IF at = {} THEN NotFound
        ELSE TotalSize(SubSeq(arch.components, 1, k - 1), 1)
                + arch.entitySize * index

\* Archetype::GetComponentOffset
GetComponentOffset(arch, compId, index) ==
    OffsetFrom(arch, compId, index, 1, 0)

\* Mutant of MemCpy: one byte short.
MemCpyShort(data, dst, src, size) ==
    LET kept   == {o \in DOMAIN data : ~(o - dst \in 0..(size - 2))}
        copied == {d - src + dst :
                     d \in {d \in DOMAIN data : d - src \in 0..(size - 2)}}
    IN  [o \in kept \cup copied |->
            IF o \in copied THEN data[o - dst + src] ELSE data[o]]

\* std::memcpy(&data[dst], &data[src], size) on a chunk's byte array: the
\* size bytes at dst become the bytes at src, indeterminate ones included.
MemCpy(data, dst, src, size) ==
    LET kept   == {o \in DOMAIN data : ~(o - dst \in 0..(size - 1))}
        copied == {d - src + dst :
                     d \in {d \in DOMAIN data : d - src \in 0..(size - 1)}}
    IN  [o \in kept \cup copied |->
            IF o \in copied THEN data[o - dst + src] ELSE data[o]]

----------------------------------------------------------------------------
(* EntityManager.                                                          *)

EntityLocation(archetypeId, chunkIndex, indexInChunk, valid) ==
    [archetypeId |-> archetypeId, chunkIndex |-> chunkIndex,
     indexInChunk |-> indexInChunk, valid |-> valid]

EntityIds == 0..(MAX_ENTITIES - 1)

\* What the caller sees of a call: the operation and the value returned
\* (0 for a void operation).
Call(op, ret) == [op |-> op, ret |-> ret]

\* No Archetype constructed outside the manager.
NoArchetype ==
    [id |-> 0, components |-> <<>>, chunks |-> <<>>,
     entitySize |-> 0, entitiesPerChunk |-> 0]

\* No ForEachInArchetype call is in progress or was the last call.
NoIteration ==
    [pc |-> "idle", archetypeId |-> 0, chunk |-> 0, i |-> 0, doomed |-> {},
     live |-> {}, visited |-> <<>>]

\* EntityManager::EntityManager
Init ==
    /\ availableEntities = [i \in 1..MAX_ENTITIES |-> i - 1]
    /\ livingEntityCount = 0
    /\ archetypes = <<>>
    /\ signatureToArchetype = <<>>
    /\ entityLocations = [e \in EntityIds |-> EntityLocation(0, 0, 0, FALSE)]
    /\ lastCall = Call("EntityManager", 0)
    /\ archIds = <<>>
    /\ localArch = NoArchetype
    /\ held = {}
    /\ iteration = NoIteration
    /\ packedData = <<>>
    /\ entityToIndex = <<>>
    /\ indexToEntity = <<>>
    /\ inserted = <<>>
    /\ workers = <<>>
    /\ jobs = <<>>
    /\ stop = FALSE
    /\ activeJobs = 0
    /\ queueMutex = "free"
    /\ mainPc = "start"
    /\ pushed = 0
    /\ finished = {}
    /\ counter = 0
    /\ futures = <<>>

\* Mutant of AllocateChunk: the capacity is computed from the whole chunk
\* size instead of being taken from the archetype.
AllocateChunkOfWholeSize(archs, archetypeId) ==
    LET arch == archs[archetypeId + 1]
    IN  [archs EXCEPT ![archetypeId + 1].chunks =
            Append(@, MemoryChunk(archetypeId,
                                  EntitiesPerChunkWholeChunk(arch.entitySize)))]

\* EntityManager::AllocateChunk, as a function of the archetype vector.
AllocateChunk(archs, archetypeId) ==
    LET arch == archs[archetypeId + 1]
    IN  [archs EXCEPT ![archetypeId + 1].chunks =
            Append(@, MemoryChunk(archetypeId, arch.entitiesPerChunk))]

\* The caller's record of the id a component multiset was first given.
Remember(components, id) ==
    IF BagOf(components) \in DOMAIN archIds THEN archIds
    ELSE archIds @@ (BagOf(components) :> id)

\* EntityManager::RegisterArchetype
RegisterArchetype(components) ==
    LET signature == ComputeSignature(components)
        archId    == Len(archetypes)
    IN  IF signature \in DOMAIN signatureToArchetype
        THEN /\ UNCHANGED <<ecs, localArch>>
             /\ lastCall' = Call("RegisterArchetype",
                                 signatureToArchetype[signature])
             /\ archIds' = Remember(components, signatureToArchetype[signature])
        ELSE /\ Len(archetypes) < MaxArchetypes
             /\ archetypes' =
                    AllocateChunk(Append(archetypes, Archetype(archId, components)),
                                  archId)
             /\ signatureToArchetype' =
                    signatureToArchetype @@ (signature :> archId)
             /\ UNCHANGED <<availableEntities, livingEntityCount,
                            entityLocations, localArch>>
             /\ lastCall' = Call("RegisterArchetype", archId)
             /\ archIds' = Remember(components, archId)

\* Mutant of ChunksWithSpace: only the newest chunk is looked at.
ChunksWithSpaceNewest(arch) ==
    {i \in {Len(arch.chunks) - 1} :
        arch.chunks[i + 1].header.count < arch.chunks[i + 1].header.capacity}

\* The chunks of arch with room, by 0-based index (the scan of lines 68-73).
ChunksWithSpace(arch) ==
    {i \in 0..(Len(arch.chunks) - 1) :
        arch.chunks[i + 1].header.count < arch.chunks[i + 1].header.capacity}

Min(S) == CHOOSE x \in S : \A y \in S : x <= y

\* CreateEntity's early returns (lines 55-58): nothing is touched.
CreateRejected ==
    /\ UNCHANGED <<ecs, archIds, localArch>>
    /\ lastCall' = Call("CreateEntity", INVALID_ENTITY)

\* CreateEntity past its early returns (lines 60-89).
PlaceEntity(archetypeId) ==
    LET id       == Head(availableEntities)
        arch     == archetypes[archetypeId + 1]
        found    == ChunksWithSpace(arch)
        chunkIdx == IF found = {} THEN Len(arch.chunks) ELSE Min(found)
        archs1   == IF found = {} THEN AllocateChunk(archetypes, archetypeId)
                    ELSE archetypes
        chunk    == archs1[archetypeId + 1].chunks[chunkIdx + 1]
        indexInChunk == chunk.header.count
    IN  /\ found = {} => Len(arch.chunks) < MaxChunks
        /\ availableEntities' = Tail(availableEntities)
        /\ livingEntityCount' = livingEntityCount + 1
        /\ archetypes' =
               [archs1 EXCEPT ![archetypeId + 1].chunks[chunkIdx + 1] =
                   [chunk EXCEPT !.header.count = (@ + 1) % U16,
                                 !.entityIds = Append(@, id)]]
        /\ entityLocations' =
               [entityLocations EXCEPT ![id] =
                   EntityLocation(archetypeId, chunkIdx, indexInChunk, TRUE)]
        /\ UNCHANGED <<signatureToArchetype, archIds, localArch>>
        /\ lastCall' = Call("CreateEntity", id)

\* Mutant of CreateEntity: the identity is popped and counted before the
\* archetype id is checked.
CreateEntityPopsFirst(archetypeId) ==
    IF availableEntities = <<>> THEN CreateRejected
    ELSE IF archetypeId >= Len(archetypes)
    THEN /\ availableEntities' = Tail(availableEntities)
         /\ livingEntityCount' = livingEntityCount + 1
         /\ UNCHANGED <<archetypes, signatureToArchetype, entityLocations,
                        archIds, localArch>>
         /\ lastCall' = Call("CreateEntity", INVALID_ENTITY)
    ELSE PlaceEntity(archetypeId)

\* Mutant of CreateEntity: the chunk is looked for, and allocated, before
\* the free pool is checked.
CreateEntityAllocatesFirst(archetypeId) ==
    IF archetypeId >= Len(archetypes) THEN CreateRejected
    ELSE IF availableEntities = <<>>
    THEN /\ archetypes' =
               IF /\ ChunksWithSpace(archetypes[archetypeId + 1]) = {}
                  /\ Len(archetypes[archetypeId + 1].chunks) < MaxChunks
               THEN AllocateChunk(archetypes, archetypeId)
               ELSE archetypes
         /\ UNCHANGED <<availableEntities, livingEntityCount,
                        signatureToArchetype, entityLocations, archIds,
                        localArch>>
         /\ lastCall' = Call("CreateEntity", INVALID_ENTITY)
    ELSE PlaceEntity(archetypeId)

\* EntityManager::CreateEntity
CreateEntity(archetypeId) ==
    IF availableEntities = <<>> \/ archetypeId >= Len(archetypes)
    THEN CreateRejected
    ELSE PlaceEntity(archetypeId)

\* The value CreateEntity(archetypeId) returns when called in this state.
CreateEntityReturns(archetypeId) ==
    IF availableEntities = <<>> \/ archetypeId >= Len(archetypes)
    THEN INVALID_ENTITY
    ELSE Head(availableEntities)

\* Mutant of CopyComponents: the bytes are copied to the chunk's first slot.
RECURSIVE CopyComponentsToFirst(_, _, _, _, _)
CopyComponentsToFirst(arch, data, lastIndex, index, i) ==
    IF i > Len(arch.components) THEN data
    ELSE LET comp      == arch.components[i]
             srcOffset == GetComponentOffset(arch, comp.id, lastIndex)
             dstOffset == GetComponentOffset(arch, comp.id, 0)
         IN  CopyComponentsToFirst(arch,
                 IF srcOffset # NotFound /\ dstOffset # NotFound
                 THEN MemCpy(data, dstOffset, srcOffset, comp.size)
                 ELSE data,
                 lastIndex, index, i + 1)

RECURSIVE CopyComponents(_, _, _, _, _)
\* The loop of lines 104-112: one memcpy per schema component.
CopyComponents(arch, data, lastIndex, index, i) ==
    IF i > Len(arch.components) THEN data
    ELSE LET comp      == arch.components[i]
             srcOffset == GetComponentOffset(arch, comp.id, lastIndex)
             dstOffset == GetComponentOffset(arch, comp.id, index)
         IN  CopyComponents(arch,
                 IF srcOffset # NotFound /\ dstOffset # NotFound
                 THEN MemCpy(data, dstOffset, srcOffset, comp.size)
                 ELSE data,
                 lastIndex, index, i + 1)

\* The swap-remove of lines 100-121 on one chunk.
SwapRemove(arch, chunk, index) ==
    LET lastIndex   == (chunk.header.count - 1) % U16
        movedEntity == chunk.entityIds[lastIndex + 1]
        moved       == IF index # lastIndex
                       THEN [chunk EXCEPT
                               !.data = CopyComponents(arch, @, lastIndex, index, 1),
                               !.entityIds[index + 1] = movedEntity]
                       ELSE chunk
    IN  [moved EXCEPT !.header.count = (@ - 1) % U16,
                      !.entityIds = SubSeq(@, 1, Len(@) - 1)]

\* DestroyEntity's early return (lines 93-94): nothing is touched.
DestroyIgnored ==
    /\ UNCHANGED <<ecs, archIds, localArch>>
    /\ lastCall' = Call("DestroyEntity", 0)

\* Mutant of RemoveEntity: the destroyed entity's location stays valid.
RemoveEntityLeavesValid(entity) ==
    LET loc   == entityLocations[entity]
        arch  == archetypes[loc.archetypeId + 1]
        chunk == arch.chunks[loc.chunkIndex + 1]
        lastIndex   == (chunk.header.count - 1) % U16
        movedEntity == chunk.entityIds[lastIndex + 1]
    IN  /\ archetypes' =
               [archetypes EXCEPT
                   ![loc.archetypeId + 1].chunks[loc.chunkIndex + 1] =
                       SwapRemove(arch, chunk, loc.indexInChunk)]
        /\ entityLocations' =
               IF loc.indexInChunk # lastIndex
               THEN [entityLocations EXCEPT
                       ![movedEntity].indexInChunk = loc.indexInChunk]
               ELSE entityLocations
        /\ availableEntities' = Append(availableEntities, entity)
        /\ livingEntityCount' = livingEntityCount - 1
        /\ UNCHANGED <<signatureToArchetype, archIds, localArch>>
        /\ lastCall' = Call("DestroyEntity", 0)

\* Mutant of RemoveEntity: a chunk that becomes empty is freed when it is
\* the archetype's last chunk and not its only one.
RemoveEntityFreesChunk(entity) ==
    LET loc   == entityLocations[entity]
        arch  == archetypes[loc.archetypeId + 1]
        chunk == arch.chunks[loc.chunkIndex + 1]
        lastIndex   == (chunk.header.count - 1) % U16
        movedEntity == chunk.entityIds[lastIndex + 1]
        locs1 == IF loc.indexInChunk # lastIndex
                 THEN [entityLocations EXCEPT
                         ![movedEntity].indexInChunk = loc.indexInChunk]
                 ELSE entityLocations
    IN  /\ archetypes' =
               IF /\ chunk.header.count = 1
                  /\ loc.chunkIndex + 1 = Len(arch.chunks)
                  /\ Len(arch.chunks) > 1
               THEN [archetypes EXCEPT
                       ![loc.archetypeId + 1].chunks =
                           SubSeq(@, 1, Len(@) - 1)]
               ELSE [archetypes EXCEPT
                       ![loc.archetypeId + 1].chunks[loc.chunkIndex + 1] =
                           SwapRemove(arch, chunk, loc.indexInChunk)]
        /\ entityLocations' = [locs1 EXCEPT ![entity].valid = FALSE]
        /\ availableEntities' = Append(availableEntities, entity)
        /\ livingEntityCount' = livingEntityCount - 1
        /\ UNCHANGED <<signatureToArchetype, archIds, localArch>>
        /\ lastCall' = Call("DestroyEntity", 0)

\* Mutant of RemoveEntity: the identity is put at the front of the free
\* pool, as a stack would.
RemoveEntityPushesFront(entity) ==
    LET loc   == entityLocations[entity]
        arch  == archetypes[loc.archetypeId + 1]
        chunk == arch.chunks[loc.chunkIndex + 1]
        lastIndex   == (chunk.header.count - 1) % U16
        movedEntity == chunk.entityIds[lastIndex + 1]
        locs1 == IF loc.indexInChunk # lastIndex
                 THEN [entityLocations EXCEPT
                         ![movedEntity].indexInChunk = loc.indexInChunk]
                 ELSE entityLocations
    IN  /\ archetypes' =
               [archetypes EXCEPT
                   ![loc.archetypeId + 1].chunks[loc.chunkIndex + 1] =
                       SwapRemove(arch, chunk, loc.indexInChunk)]
        /\ entityLocations' = [locs1 EXCEPT ![entity].valid = FALSE]
        /\ availableEntities' = <<entity>> \o availableEntities
        /\ livingEntityCount' = livingEntityCount - 1
        /\ UNCHANGED <<signatureToArchetype, archIds, localArch>>
        /\ lastCall' = Call("DestroyEntity", 0)

\* DestroyEntity past its early return (lines 96-124).
RemoveEntity(entity) ==
    LET loc   == entityLocations[entity]
        arch  == archetypes[loc.archetypeId + 1]
        chunk == arch.chunks[loc.chunkIndex + 1]
        lastIndex   == (chunk.header.count - 1) % U16
        movedEntity == chunk.entityIds[lastIndex + 1]
        locs1 == IF loc.indexInChunk # lastIndex
                 THEN [entityLocations EXCEPT
                         ![movedEntity].indexInChunk = loc.indexInChunk]
                 ELSE entityLocations
    IN  /\ archetypes' =
               [archetypes EXCEPT
                   ![loc.archetypeId + 1].chunks[loc.chunkIndex + 1] =
                       SwapRemove(arch, chunk, loc.indexInChunk)]
        /\ entityLocations' = [locs1 EXCEPT ![entity].valid = FALSE]
        /\ availableEntities' = Append(availableEntities, entity)
        /\ livingEntityCount' = livingEntityCount - 1
        /\ UNCHANGED <<signatureToArchetype, archIds, localArch>>
        /\ lastCall' = Call("DestroyEntity", 0)

\* Mutant of DestroyEntity: the count is decremented before the guard.
DestroyEntityCountsFirst(entity) ==
    IF entity >= MAX_ENTITIES \/ ~entityLocations[entity].valid
    THEN /\ livingEntityCount' = livingEntityCount - 1
         /\ UNCHANGED <<availableEntities, archetypes, signatureToArchetype,
                        entityLocations, archIds, localArch>>
         /\ lastCall' = Call("DestroyEntity", 0)
    ELSE RemoveEntity(entity)

\* Mutant of DestroyEntity: the guard checks the range only, and a dead
\* identity is pushed to the free pool again.
DestroyEntityRepushes(entity) ==
    IF entity >= MAX_ENTITIES THEN DestroyIgnored
    ELSE IF ~entityLocations[entity].valid
    THEN /\ availableEntities' = Append(availableEntities, entity)
         /\ UNCHANGED <<livingEntityCount, archetypes, signatureToArchetype,
                        entityLocations, archIds, localArch>>
         /\ lastCall' = Call("DestroyEntity", 0)
    ELSE RemoveEntity(entity)

\* EntityManager::DestroyEntity
DestroyEntity(entity) ==
    IF entity >= MAX_ENTITIES \/ ~entityLocations[entity].valid
    THEN DestroyIgnored
    ELSE RemoveEntity(entity)

\* An address inside a chunk's data array, or the null pointer.
Pointer(archetypeId, chunkIndex, offset) ==
    [null |-> FALSE, archetypeId |-> archetypeId,
     chunkIndex |-> chunkIndex, offset |-> offset]

nullptr == [null |-> TRUE, archetypeId |-> 0, chunkIndex |-> 0, offset |-> 0]

\* EntityManager::GetLocation
GetLocation(entity) == entityLocations[entity]

\* Mutant of GetComponentData: a handle whose entity was destroyed is
\* refused, as a generation check would.
GetComponentDataOfGeneration(entity, compId) ==
    IF entity >= MAX_ENTITIES \/ ~entityLocations[entity].valid
          \/ entity \in held
    THEN nullptr
    ELSE LET loc    == entityLocations[entity]
             arch   == archetypes[loc.archetypeId + 1]
             offset == GetComponentOffset(arch, compId, loc.indexInChunk)
         IN  IF offset = NotFound THEN nullptr
             ELSE Pointer(loc.archetypeId, loc.chunkIndex, offset)

\* Mutant of GetComponentData: the offset is not compared with "not found".
GetComponentDataUnchecked(entity, compId) ==
    IF entity >= MAX_ENTITIES \/ ~entityLocations[entity].valid
    THEN nullptr
    ELSE LET loc    == entityLocations[entity]
             arch   == archetypes[loc.archetypeId + 1]
             offset == GetComponentOffset(arch, compId, loc.indexInChunk)
         IN  Pointer(loc.archetypeId, loc.chunkIndex, offset)

\* EntityManager::GetComponentData
GetComponentData(entity, compId) ==
    IF entity >= MAX_ENTITIES \/ ~entityLocations[entity].valid
    THEN nullptr
    ELSE LET loc    == entityLocations[entity]
             arch   == archetypes[loc.archetypeId + 1]
             offset == GetComponentOffset(arch, compId, loc.indexInChunk)
         IN  IF offset = NotFound THEN nullptr
             ELSE Pointer(loc.archetypeId, loc.chunkIndex, offset)

\* One invocation of ForEachInArchetype's callback: callback(chunk, i).
Visit(chunkIndex, slot) == [chunkIndex |-> chunkIndex, slot |-> slot]

\* Mutant of VisitSlots: the loop runs to the chunk's capacity.
RECURSIVE VisitSlotsToCapacity(_, _, _)
VisitSlotsToCapacity(chunks, c, i) ==
    IF i < chunks[c + 1].header.capacity
    THEN <<Visit(c, i)>> \o VisitSlotsToCapacity(chunks, c, (i + 1) % U16)
    ELSE <<>>

\* The inner loop of lines 155-157, from slot i (a uint16_t) on.
RECURSIVE VisitSlots(_, _, _)
VisitSlots(chunks, c, i) ==
    IF i < chunks[c + 1].header.count
    THEN <<Visit(c, i)>> \o VisitSlots(chunks, c, (i + 1) % U16)
    ELSE <<>>

\* The outer loop of lines 154-158, from the chunk of index c on.
RECURSIVE VisitChunks(_, _)
VisitChunks(chunks, c) ==
    IF c >= Len(chunks) THEN <<>>
    ELSE VisitSlots(chunks, c, 0) \o VisitChunks(chunks, c + 1)

\* EntityManager::ForEachInArchetype with a callback that changes nothing:
\* the sequence of callback invocations.
ForEachInArchetype(archetypeId) ==
    IF archetypeId >= Len(archetypes) THEN <<>>
    ELSE VisitChunks(archetypes[archetypeId + 1].chunks, 0)

\* The entities in the chunks of an archetype.
EntitiesOf(arch) ==
    UNION {Range(arch.chunks[c].entityIds) : c \in DOMAIN arch.chunks}

\* ForEachInArchetype is called with a callback that calls DestroyEntity on
\* the entity of the slot it is given when that entity is in doomed (lines
\* 151-153): the call returns at once for an unknown archetype, and
\* otherwise enters the loops at the first slot of the first chunk.
ForEachCall(archetypeId, doomed) ==
    /\ iteration.pc # "loop"
    /\ iteration' =
          IF archetypeId >= Len(archetypes)
          THEN [NoIteration EXCEPT !.pc = "returned",
                                   !.archetypeId = archetypeId]
          ELSE [pc |-> "loop", archetypeId |-> archetypeId, chunk |-> 0,
                i |-> 0, doomed |-> doomed,
                live |-> EntitiesOf(archetypes[archetypeId + 1]),
                visited |-> <<>>]
    /\ lastCall' = Call("ForEachInArchetype", 0)
    /\ UNCHANGED <<ecs, archIds, localArch>>

\* One turn of the inner loop (lines 155-157): i < chunk->header.count holds,
\* callback(chunk, i) runs, ++i.  The callback destroys the entity of the
\* slot when it is doomed.
ForEachVisit ==
    LET arch   == archetypes[iteration.archetypeId + 1]
        c      == iteration.chunk
        i      == iteration.i
        entity == arch.chunks[c + 1].entityIds[i + 1]
    IN  /\ iteration.pc = "loop"
        /\ c < Len(arch.chunks)
        /\ i < arch.chunks[c + 1].header.count
        /\ iteration' =
              [iteration EXCEPT
                  !.visited = Append(@, [chunkIndex |-> c, slot |-> i,
                                         entity |-> entity]),
                  !.i = (i + 1) % U16]
        /\ IF entity \in iteration.doomed
           THEN DestroyEntity(entity)
           ELSE UNCHANGED <<ecs, lastCall, archIds, localArch>>

\* The inner loop ends (line 155, i < chunk->header.count fails): the outer
\* loop moves to the next chunk.
ForEachNextChunk ==
    LET arch == archetypes[iteration.archetypeId + 1]
        c    == iteration.chunk
    IN  /\ iteration.pc = "loop"
        /\ c < Len(arch.chunks)
        /\ ~(iteration.i < arch.chunks[c + 1].header.count)
        /\ iteration' = [iteration EXCEPT !.chunk = c + 1, !.i = 0]
        /\ UNCHANGED <<ecs, lastCall, archIds, localArch>>

\* The outer loop ends (line 154): ForEachInArchetype returns.
ForEachReturn ==
    /\ iteration.pc = "loop"
    /\ iteration.chunk >= Len(archetypes[iteration.archetypeId + 1].chunks)
    /\ iteration' = [iteration EXCEPT !.pc = "returned"]
    /\ UNCHANGED <<ecs, lastCall, archIds, localArch>>

\* The size of the first schema component with this id, the one
\* GetComponentOffset resolves.
SizeOf(arch, compId) ==
    arch.components[Min({i \in DOMAIN arch.components :
                            arch.components[i].id = compId})].size

\* A client stores byte v at position k of a component through the pointer
\* GetComponentData returned (GetComponent<T>(e, c)->field = ...).  Only
\* stores inside the data array are modelled.
WriteComponent(entity, compId, k, v) ==
    LET p == GetComponentData(entity, compId)
    IN  /\ ~p.null
        /\ k < SizeOf(archetypes[p.archetypeId + 1], compId)
        /\ p.offset + k < DataBytes
        /\ archetypes' =
              [archetypes EXCEPT
                 ![p.archetypeId + 1].chunks[p.chunkIndex + 1].data =
                     [o \in (DOMAIN @) \cup {p.offset + k} |->
                         IF o = p.offset + k THEN v ELSE @[o]]]
        /\ UNCHANGED <<availableEntities, livingEntityCount,
                       signatureToArchetype, entityLocations, lastCall,
                       archIds, localArch>>

\* The byte position of a component a client stores to: its last byte.
WritePositions(entity, compId) ==
    LET p == GetComponentData(entity, compId)
    IN  IF p.null THEN {}
        ELSE {SizeOf(archetypes[p.archetypeId + 1], compId) - 1}

\* The number of bytes of all chunks that have been written.
RECURSIVE WrittenIn(_, _)
WrittenIn(chunks, i) ==
    IF i > Len(chunks) THEN 0
    ELSE Cardinality(DOMAIN chunks[i].data) + WrittenIn(chunks, i + 1)

RECURSIVE WrittenBytes(_)
WrittenBytes(i) ==
    IF i > Len(archetypes) THEN 0
    ELSE WrittenIn(archetypes[i].chunks, 1) + WrittenBytes(i + 1)

----------------------------------------------------------------------------
(* ComponentArray<T>.  Indices are 0-based as in the source:               *)
(* packedData[i + 1] is the source's packedData[i].                        *)

\* The entity ids of the test, and one that is never the only choice.
ArrayEntities == {10, 20, 30, 99}

\* The component values T inserted.
ArrayValues == {1, 2}

\* m[k] = v on a std::unordered_map: insert or overwrite.
Assign(m, k, v) == [x \in (DOMAIN m) \cup {k} |-> IF x = k THEN v ELSE m[x]]

\* m.erase(k)
Erase(m, k) == [x \in (DOMAIN m) \ {k} |-> m[x]]

\* m[k] read on a std::unordered_map<size_t, uint32_t>: a missing key is
\* value-initialised.
Lookup(m, k) == IF k \in DOMAIN m THEN m[k] ELSE 0

\* ComponentArray::InsertData.  The assert (entity not yet stored) is the
\* operation's precondition.
InsertData(entityId, component) ==
    LET newIndex == Len(packedData)
    IN  /\ entityId \notin DOMAIN entityToIndex
        /\ entityToIndex' = Assign(entityToIndex, entityId, newIndex)
        /\ indexToEntity' = Assign(indexToEntity, newIndex, entityId)
        /\ packedData' = Append(packedData, component)

\* Mutant of RemoveStored: the last element is not moved into the slot.
RemoveStoredKeepsSlot(entityId) ==
    LET removedIndex == entityToIndex[entityId]
        lastIndex    == Len(packedData) - 1
        lastEntity   == Lookup(indexToEntity, lastIndex)
        moves        == removedIndex # lastIndex
    IN  /\ packedData' = SubSeq(packedData, 1, Len(packedData) - 1)
        /\ entityToIndex' =
              Erase(IF moves THEN Assign(entityToIndex, lastEntity, removedIndex)
                    ELSE entityToIndex, entityId)
        /\ indexToEntity' =
              Erase(IF moves THEN Assign(indexToEntity, removedIndex, lastEntity)
                    ELSE indexToEntity, lastIndex)

\* Mutant of RemoveStored: the index of the removed entity is erased from
\* indexToEntity, not the last index.
RemoveStoredErasesSlot(entityId) ==
    LET removedIndex == entityToIndex[entityId]
        lastIndex    == Len(packedData) - 1
        lastEntity   == Lookup(indexToEntity, lastIndex)
        moves        == removedIndex # lastIndex
        packed1      == IF moves
                        THEN [packedData EXCEPT ![removedIndex + 1] =
                                                    packedData[lastIndex + 1]]
                        ELSE packedData
    IN  /\ packedData' = SubSeq(packed1, 1, Len(packed1) - 1)
        /\ entityToIndex' =
              Erase(IF moves THEN Assign(entityToIndex, lastEntity, removedIndex)
                    ELSE entityToIndex, entityId)
        /\ indexToEntity' =
              Erase(IF moves THEN Assign(indexToEntity, removedIndex, lastEntity)
                    ELSE indexToEntity, removedIndex)

\* RemoveData past its early return (lines 40-55).
RemoveStored(entityId) ==
    LET removedIndex == entityToIndex[entityId]
        lastIndex    == Len(packedData) - 1
        lastEntity   == Lookup(indexToEntity, lastIndex)
        moves        == removedIndex # lastIndex
        packed1      == IF moves
                        THEN [packedData EXCEPT ![removedIndex + 1] =
                                                    packedData[lastIndex + 1]]
                        ELSE packedData
    IN  /\ packedData' = SubSeq(packed1, 1, Len(packed1) - 1)
        /\ entityToIndex' =
              Erase(IF moves THEN Assign(entityToIndex, lastEntity, removedIndex)
                    ELSE entityToIndex, entityId)
        /\ indexToEntity' =
              Erase(IF moves THEN Assign(indexToEntity, removedIndex, lastEntity)
                    ELSE indexToEntity, lastIndex)

\* Mutant of RemoveData: no early return; the index of an entity that is
\* not stored is read with operator[], which yields 0.
RemoveDataUnguarded(entityId) ==
    IF entityId \in DOMAIN entityToIndex THEN RemoveStored(entityId)
    ELSE IF packedData = <<>>
    THEN UNCHANGED <<packedData, entityToIndex, indexToEntity>>
    ELSE RemoveStored(indexToEntity[0])

\* ComponentArray::RemoveData
RemoveData(entityId) ==
    IF entityId \notin DOMAIN entityToIndex
    THEN UNCHANGED <<packedData, entityToIndex, indexToEntity>>
    ELSE RemoveStored(entityId)

\* ComponentArray::EntityDestroyed
EntityDestroyed(entityId) ==
    IF entityId \in DOMAIN entityToIndex
    THEN RemoveData(entityId)
    ELSE UNCHANGED <<packedData, entityToIndex, indexToEntity>>

\* ComponentArray::GetData, for a stored entity (the assert).
GetData(entityId) == packedData[entityToIndex[entityId] + 1]

\* ComponentArray::HasData
HasData(entityId) == entityId \in DOMAIN entityToIndex

\* ComponentArray::Size
Size == Len(packedData)

\* The caller's record without the pairs of an entity.
RECURSIVE Without(_, _)
Without(pairs, entityId) ==
    IF pairs = <<>> THEN <<>>
    ELSE (IF Head(pairs).entity = entityId THEN <<>> ELSE <<Head(pairs)>>)
             \o Without(Tail(pairs), entityId)

----------------------------------------------------------------------------
(* JobSystem.  A critical section that takes no further lock is one step;  *)
(* PushJob takes completionMutex while it holds queueMutex, so queueMutex  *)
(* is held across steps there.  A condition-variable wait with a predicate *)
(* checks the predicate under the mutex: when it holds the thread goes on, *)
(* and when it fails the thread releases the mutex and blocks until a      *)
(* notify call or a spurious wake-up, which C++ allows at any time, makes  *)
(* it check again.  Jobs are numbered 1, 2, ... in the order PushJob       *)
(* accepts them; each increments the counter.                              *)

WorkerIds == DOMAIN workers

\* The value the callable of job j returns (an input: every job of the test
\* returns void; distinct values tell the jobs' futures apart).
ReturnOf(j) == 100 + j

\* JobSystem::JobSystem with hardware_concurrency() = numThreads (a result
\* of 0 is replaced by 2): the workers start at the top of their loop.
JobSystemCtor(numThreads) ==
    /\ mainPc = "start"
    /\ workers' = [w \in 1..(IF numThreads = 0 THEN 2 ELSE numThreads) |->
                      [pc |-> "wait", task |-> 0]]
    /\ stop' = FALSE
    /\ activeJobs' = 0
    /\ mainPc' = "idle"
    /\ UNCHANGED <<jobs, queueMutex, pushed, finished, counter, futures>>

\* The owner thread is between two calls.
MainReady == mainPc \in {"idle", "returned"}

\* PushJob, line 72: lock queueMutex (stop is false while the owner lives).
PushLock ==
    /\ MainReady
    /\ pushed < MaxJobs
    /\ queueMutex = "free"
    /\ queueMutex' = "main"
    /\ mainPc' = "push_count"
    /\ UNCHANGED <<workers, jobs, stop, activeJobs, pushed, finished, counter, futures>>

\* PushJob, lines 76-79: activeJobs++ under completionMutex.
PushCount ==
    /\ mainPc = "push_count"
    /\ activeJobs' = activeJobs + 1
    /\ mainPc' = "push_emplace"
    /\ UNCHANGED <<workers, jobs, stop, queueMutex, pushed, finished, counter, futures>>

\* PushJob, lines 80-81: jobs.emplace, unlock queueMutex.
PushEmplace ==
    /\ mainPc = "push_emplace"
    /\ jobs' = Append(jobs, pushed + 1)
    /\ pushed' = pushed + 1
    /\ queueMutex' = "free"
    /\ mainPc' = "push_notify"
    /\ UNCHANGED <<workers, stop, activeJobs, finished, counter, futures>>

\* The workers blocked in condition.wait.
Blocked == {w \in WorkerIds : workers[w].pc = "blocked"}

\* Mutant of PushNotify: no worker is notified.
PushNotifyNobody ==
    /\ mainPc = "push_notify"
    /\ mainPc' = "idle"
    /\ UNCHANGED <<workers, jobs, stop, activeJobs, queueMutex, pushed,
                   finished, counter, futures>>

\* PushJob, lines 82-83: condition.notify_one wakes one of the blocked
\* workers, if there is any; return.
PushNotify ==
    /\ mainPc = "push_notify"
    /\ mainPc' = "idle"
    /\ IF Blocked = {} THEN workers' = workers
       ELSE \E w \in Blocked : workers' = [workers EXCEPT ![w].pc = "wait"]
    /\ UNCHANGED <<jobs, stop, activeJobs, queueMutex, pushed, finished,
                   counter, futures>>

\* Worker loop, lines 31-33: the predicate of condition.wait fails under
\* queueMutex; the worker releases the mutex and blocks.
WorkerBlock(w) ==
    /\ workers[w].pc = "wait"
    /\ queueMutex = "free"
    /\ ~(stop \/ jobs # <<>>)
    /\ workers' = [workers EXCEPT ![w].pc = "blocked"]
    /\ UNCHANGED <<jobs, stop, activeJobs, queueMutex, mainPc, pushed,
                   finished, counter, futures>>

\* A spurious wake-up of a worker blocked in condition.wait: it will check
\* the predicate again.
WorkerSpuriousWake(w) ==
    /\ workers[w].pc = "blocked"
    /\ workers' = [workers EXCEPT ![w].pc = "wait"]
    /\ UNCHANGED <<jobs, stop, activeJobs, queueMutex, mainPc, pushed,
                   finished, counter, futures>>

\* Mutant of WorkerTake: the job at the front is taken and not popped.
WorkerTakeKeepsJob(w) ==
    /\ workers[w].pc = "wait"
    /\ queueMutex = "free"
    /\ stop \/ jobs # <<>>
    /\ IF stop /\ jobs = <<>>
       THEN workers' = [workers EXCEPT ![w].pc = "exited"]
       ELSE workers' = [workers EXCEPT ![w] = [pc |-> "run", task |-> Head(jobs)]]
    /\ UNCHANGED <<jobs, stop, activeJobs, queueMutex, mainPc, pushed, finished,
                   counter, futures>>

\* Worker loop, lines 30-38: wait for stop or a job under queueMutex, then
\* leave the loop or take the job at the front.
WorkerTake(w) ==
    /\ workers[w].pc = "wait"
    /\ queueMutex = "free"
    /\ stop \/ jobs # <<>>
    /\ IF stop /\ jobs = <<>>
       THEN /\ workers' = [workers EXCEPT ![w].pc = "exited"]
            /\ jobs' = jobs
       ELSE /\ workers' = [workers EXCEPT ![w] = [pc |-> "run", task |-> Head(jobs)]]
            /\ jobs' = Tail(jobs)
    /\ UNCHANGED <<stop, activeJobs, queueMutex, mainPc, pushed, finished, counter, futures>>

\* Worker loop, line 39: task(), here counter++; the packaged_task stores
\* the callable's return value in the shared state of the job's future.
WorkerRun(w) ==
    /\ workers[w].pc = "run"
    /\ counter' = counter + 1
    /\ finished' = finished \cup {workers[w].task}
    /\ futures' = Assign(futures, workers[w].task, ReturnOf(workers[w].task))
    /\ workers' = [workers EXCEPT ![w].pc = "complete"]
    /\ UNCHANGED <<jobs, stop, activeJobs, queueMutex, mainPc, pushed>>

\* Worker loop, lines 40-46: activeJobs-- under completionMutex, and at 0
\* completionCV.notify_all wakes the owner when it is blocked in WaitAll;
\* then back to the top of the loop.
WorkerComplete(w) ==
    /\ workers[w].pc = "complete"
    /\ activeJobs' = activeJobs - 1
    /\ workers' = [workers EXCEPT ![w] = [pc |-> "wait", task |-> 0]]
    /\ mainPc' = IF activeJobs - 1 = 0 /\ mainPc = "waitall_blocked"
                 THEN "waitall" ELSE mainPc
    /\ UNCHANGED <<jobs, stop, queueMutex, pushed, finished, counter, futures>>

\* WaitAll is called: the owner is about to check the predicate of
\* completionCV.wait under completionMutex.
WaitAllCall ==
    /\ MainReady
    /\ mainPc' = "waitall"
    /\ UNCHANGED <<workers, jobs, stop, activeJobs, queueMutex, pushed,
                   finished, counter, futures>>

\* Mutant of WaitAllReturn: the wait ends when the job queue is empty.
WaitAllReturnOnEmptyQueue ==
    /\ mainPc = "waitall"
    /\ jobs = <<>>
    /\ mainPc' = "returned"
    /\ UNCHANGED <<workers, jobs, stop, activeJobs, queueMutex, pushed,
                   finished, counter, futures>>

\* WaitAll, lines 92-93: the predicate fails under completionMutex; the
\* owner releases the mutex and blocks.
WaitAllBlock ==
    /\ mainPc = "waitall"
    /\ activeJobs # 0
    /\ mainPc' = "waitall_blocked"
    /\ UNCHANGED <<workers, jobs, stop, activeJobs, queueMutex, pushed,
                   finished, counter, futures>>

\* A spurious wake-up of the owner blocked in completionCV.wait.
WaitAllSpuriousWake ==
    /\ mainPc = "waitall_blocked"
    /\ mainPc' = "waitall"
    /\ UNCHANGED <<workers, jobs, stop, activeJobs, queueMutex, pushed,
                   finished, counter, futures>>

\* WaitAll, lines 92-93: the wait ends with activeJobs == 0 seen under
\* completionMutex.
WaitAllReturn ==
    /\ mainPc = "waitall"
    /\ activeJobs = 0
    /\ mainPc' = "returned"
    /\ UNCHANGED <<workers, jobs, stop, activeJobs, queueMutex, pushed,
                   finished, counter, futures>>

\* JobSystem::~JobSystem, lines 53-56: stop = true under queueMutex.
DtorStop ==
    /\ MainReady
    /\ queueMutex = "free"
    /\ stop' = TRUE
    /\ mainPc' = "dtor_notify"
    /\ UNCHANGED <<workers, jobs, activeJobs, queueMutex, pushed, finished,
                   counter, futures>>

\* JobSystem::~JobSystem, line 57: condition.notify_all wakes every
\* blocked worker.
DtorNotify ==
    /\ mainPc = "dtor_notify"
    /\ mainPc' = "join"
    /\ workers' = [w \in WorkerIds |->
                      IF workers[w].pc = "blocked"
                      THEN [workers[w] EXCEPT !.pc = "wait"] ELSE workers[w]]
    /\ UNCHANGED <<jobs, stop, activeJobs, queueMutex, pushed, finished,
                   counter, futures>>

\* JobSystem::~JobSystem, lines 58-60: every worker is joined.
DtorJoin ==
    /\ mainPc = "join"
    /\ \A w \in WorkerIds : workers[w].pc = "exited"
    /\ mainPc' = "destroyed"
    /\ UNCHANGED <<workers, jobs, stop, activeJobs, queueMutex, pushed,
                   finished, counter, futures>>

----------------------------------------------------------------------------
(* Specifications.                                                         *)

\* The manager driven through its three mutating operations.
Next ==
    \/ \E components \in Schemas :
          RegisterArchetype(components) /\ UNCHANGED <<held, iteration, array, jobSystem>>
    \/ \E archetypeId \in 0..MaxArchetypes :
          CreateEntity(archetypeId) /\ UNCHANGED <<held, iteration, array, jobSystem>>
    \/ \E entity \in 0..MAX_ENTITIES :
          DestroyEntity(entity) /\ UNCHANGED <<held, iteration, array, jobSystem>>

Spec == Init /\ [][Next]_vars

\* The manager with one two-component archetype, whose clients also store
\* component bytes through GetComponentData.
NextData ==
    \/ RegisterArchetype(<<MeshA, MeshB>>) /\ UNCHANGED <<held, iteration, array, jobSystem>>
    \/ \E archetypeId \in 0..1 :
          CreateEntity(archetypeId) /\ UNCHANGED <<held, iteration, array, jobSystem>>
    \/ \E entity \in 0..MAX_ENTITIES :
          DestroyEntity(entity) /\ UNCHANGED <<held, iteration, array, jobSystem>>
    \/ \E entity \in EntityIds, compId \in {MeshA.id, MeshB.id}, v \in ByteVals :
          \E k \in WritePositions(entity, compId) :
              /\ WrittenBytes(1) < MaxWritten
              /\ WriteComponent(entity, compId, k, v)
              /\ UNCHANGED <<held, iteration, array, jobSystem>>

SpecData == Init /\ [][NextData]_vars

\* The schemas of a manager that registers one archetype only.
SoloSchemas == { <<MeshA, MeshB>>, <<Position, Velocity, Health>> }

\* The manager with a single archetype, and a subsystem that keeps the
\* handle of every entity after the entity is destroyed.
NextSolo ==
    \/ \E components \in SoloSchemas :
          /\ archetypes = <<>>
          /\ RegisterArchetype(components)
          /\ UNCHANGED <<held, iteration, array, jobSystem>>
    \/ CreateEntity(0) /\ UNCHANGED <<held, iteration, array, jobSystem>>
    \/ \E entity \in EntityIds :
          /\ DestroyEntity(entity)
          /\ held' = IF entityLocations[entity].valid
                     THEN held \cup {entity} ELSE held
          /\ UNCHANGED <<iteration, array, jobSystem>>

SpecSolo == Init /\ [][NextSolo]_vars

\* The schemas of a manager with a two-per-chunk and a 584-per-chunk
\* archetype.
PairSchemas == { <<MeshA, MeshB>>, <<Position, Velocity, Health>> }

\* The manager with these two archetypes, registered in either order.
NextPair ==
    \/ \E components \in PairSchemas :
          RegisterArchetype(components) /\ UNCHANGED <<held, iteration, array, jobSystem>>
    \/ \E archetypeId \in 0..MaxArchetypes :
          CreateEntity(archetypeId) /\ UNCHANGED <<held, iteration, array, jobSystem>>
    \/ \E entity \in 0..MAX_ENTITIES :
          DestroyEntity(entity) /\ UNCHANGED <<held, iteration, array, jobSystem>>

SpecPair == Init /\ [][NextPair]_vars

\* The component the clients of the single-archetype manager store to: the
\* second of <<Position, Velocity, Health>> and, the id being MeshA's too,
\* the first of <<MeshA, MeshB>>.
StoredIds == {Velocity.id}

\* The manager with a single archetype, whose clients also store component
\* bytes through GetComponentData.
NextFrame ==
    \/ \E components \in SoloSchemas :
          /\ archetypes = <<>>
          /\ RegisterArchetype(components)
          /\ UNCHANGED <<held, iteration, array, jobSystem>>
    \/ CreateEntity(0) /\ UNCHANGED <<held, iteration, array, jobSystem>>
    \/ \E entity \in EntityIds :
          DestroyEntity(entity) /\ UNCHANGED <<held, iteration, array, jobSystem>>
    \/ \E entity \in EntityIds, compId \in StoredIds, v \in ByteVals :
          \E k \in WritePositions(entity, compId) :
              /\ WrittenBytes(1) < MaxWritten
              /\ WriteComponent(entity, compId, k, v)
              /\ UNCHANGED <<held, iteration, array, jobSystem>>

SpecFrame == Init /\ [][NextFrame]_vars

\* The schemas of a manager whose one archetype may be too large for a
\* chunk: 16381 bytes per entity against 16376 bytes of chunk data.
WideSchemas == { <<MeshA, MeshB>>, <<Oversize, Health>> }

\* The component the clients of that manager store to: the second of
\* either schema.
WideStoredIds == {Health.id}

\* The manager with a single archetype of these schemas, whose clients
\* store component bytes through GetComponentData.
NextWide ==
    \/ \E components \in WideSchemas :
          /\ archetypes = <<>>
          /\ RegisterArchetype(components)
          /\ UNCHANGED <<held, iteration, array, jobSystem>>
    \/ CreateEntity(0) /\ UNCHANGED <<held, iteration, array, jobSystem>>
    \/ \E entity \in EntityIds :
          DestroyEntity(entity) /\ UNCHANGED <<held, iteration, array, jobSystem>>
    \/ \E entity \in EntityIds, compId \in WideStoredIds, v \in ByteVals :
          \E k \in WritePositions(entity, compId) :
              /\ WrittenBytes(1) < MaxWritten
              /\ WriteComponent(entity, compId, k, v)
              /\ UNCHANGED <<held, iteration, array, jobSystem>>

SpecWide == Init /\ [][NextWide]_vars

\* The manager with a single archetype, whose caller also iterates it with
\* a callback that destroys some of the entities it is shown.  No other
\* call is made while ForEachInArchetype runs: the manager is
\* single-threaded.
NextVisit ==
    \/ \E components \in SoloSchemas :
          /\ archetypes = <<>>
          /\ iteration.pc # "loop"
          /\ RegisterArchetype(components)
          /\ iteration' = NoIteration
          /\ UNCHANGED <<held, array, jobSystem>>
    \/ /\ iteration.pc # "loop"
       /\ CreateEntity(0)
       /\ iteration' = NoIteration
       /\ UNCHANGED <<held, array, jobSystem>>
    \/ \E entity \in EntityIds :
          /\ iteration.pc # "loop"
          /\ DestroyEntity(entity)
          /\ iteration' = NoIteration
          /\ UNCHANGED <<held, array, jobSystem>>
    \/ \E archetypeId \in 0..1, doomed \in SUBSET EntityIds :
          ForEachCall(archetypeId, doomed) /\ UNCHANGED <<held, array, jobSystem>>
    \/ ForEachVisit /\ UNCHANGED <<held, array, jobSystem>>
    \/ ForEachNextChunk /\ UNCHANGED <<held, array, jobSystem>>
    \/ ForEachReturn /\ UNCHANGED <<held, array, jobSystem>>

SpecVisit == Init /\ [][NextVisit]_vars

\* The manager offered schemas whose signatures collide.
NextCollide ==
    \/ \E components \in CollideSchemas :
          RegisterArchetype(components) /\ UNCHANGED <<held, iteration, array, jobSystem>>
    \/ \E archetypeId \in 0..1 :
          CreateEntity(archetypeId) /\ UNCHANGED <<held, iteration, array, jobSystem>>
    \/ \E entity \in EntityIds :
          DestroyEntity(entity) /\ UNCHANGED <<held, iteration, array, jobSystem>>

SpecCollide == Init /\ [][NextCollide]_vars

\* A ComponentArray driven through its three mutating operations by a
\* caller that inserts only entities it has not stored.
NextArray ==
    \/ \E entityId \in ArrayEntities, component \in ArrayValues :
          /\ Len(packedData) < MaxStored
          /\ InsertData(entityId, component)
          /\ inserted' = Append(inserted,
                                [entity |-> entityId, value |-> component])
          /\ lastCall' = Call("InsertData", 0)
          /\ UNCHANGED <<ecs, archIds, localArch, held, iteration, jobSystem>>
    \/ \E entityId \in ArrayEntities :
          /\ RemoveData(entityId)
          /\ inserted' = Without(inserted, entityId)
          /\ lastCall' = Call("RemoveData", 0)
          /\ UNCHANGED <<ecs, archIds, localArch, held, iteration, jobSystem>>
    \/ \E entityId \in ArrayEntities :
          /\ EntityDestroyed(entityId)
          /\ inserted' = Without(inserted, entityId)
          /\ lastCall' = Call("EntityDestroyed", 0)
          /\ UNCHANGED <<ecs, archIds, localArch, held, iteration, jobSystem>>

SpecArray == Init /\ [][NextArray]_vars

\* A JobSystem, its owner thread and its workers, in every interleaving.
NextJobs ==
    \/ \E numThreads \in 0..MaxThreads :
          JobSystemCtor(numThreads) /\ UNCHANGED <<manager, held, iteration, array>>
    \/ PushLock /\ UNCHANGED <<manager, held, iteration, array>>
    \/ PushCount /\ UNCHANGED <<manager, held, iteration, array>>
    \/ PushEmplace /\ UNCHANGED <<manager, held, iteration, array>>
    \/ PushNotify /\ UNCHANGED <<manager, held, iteration, array>>
    \/ WaitAllCall /\ UNCHANGED <<manager, held, iteration, array>>
    \/ WaitAllReturn /\ UNCHANGED <<manager, held, iteration, array>>
    \/ DtorStop /\ UNCHANGED <<manager, held, iteration, array>>
    \/ DtorJoin /\ UNCHANGED <<manager, held, iteration, array>>
    \/ \E w \in WorkerIds : WorkerTake(w) /\ UNCHANGED <<manager, held, iteration, array>>
    \/ \E w \in WorkerIds : WorkerRun(w) /\ UNCHANGED <<manager, held, iteration, array>>
    \/ \E w \in WorkerIds :
          WorkerComplete(w) /\ UNCHANGED <<manager, held, iteration, array>>
    \/ \E w \in WorkerIds :
          WorkerBlock(w) /\ UNCHANGED <<manager, held, iteration, array>>
    \/ \E w \in WorkerIds :
          WorkerSpuriousWake(w) /\ UNCHANGED <<manager, held, iteration, array>>
    \/ WaitAllBlock /\ UNCHANGED <<manager, held, iteration, array>>
    \/ DtorNotify /\ UNCHANGED <<manager, held, iteration, array>>
    \/ WaitAllSpuriousWake /\ UNCHANGED <<manager, held, iteration, array>>

SpecJobs == Init /\ [][NextJobs]_vars

\* A step of the JobSystem alone.
JobStep(A) == A /\ UNCHANGED <<manager, held, iteration, array>>

\* Fair scheduling: a thread that can take its next step inside the
\* JobSystem takes it in the end, and a job that was started terminates.
\* Nothing makes the owner call PushJob, WaitAll or the destructor, and
\* nothing makes a spurious wake-up happen.
Fairness ==
    /\ \A w \in 1..MaxThreads :
          /\ WF_vars(JobStep(w \in WorkerIds /\ WorkerTake(w)))
          /\ WF_vars(JobStep(w \in WorkerIds /\ WorkerBlock(w)))
          /\ WF_vars(JobStep(w \in WorkerIds /\ WorkerRun(w)))
          /\ WF_vars(JobStep(w \in WorkerIds /\ WorkerComplete(w)))
    /\ WF_vars(JobStep(PushCount))
    /\ WF_vars(JobStep(PushEmplace))
    /\ WF_vars(JobStep(PushNotify))
    /\ WF_vars(JobStep(WaitAllBlock))
    /\ WF_vars(JobStep(WaitAllReturn))
    /\ WF_vars(JobStep(DtorNotify))

SpecJobsFair == SpecJobs /\ Fairness

\* An Archetype constructed on its own, as TestECSMemory does
\* (Archetype arch(1, comps)).  A schema of total size 0 is not offered:
\* the constructor would divide by zero.
ConstructArchetype(comps) ==
    /\ TotalSize(comps, 1) > 0
    /\ localArch' = Archetype(1, comps)
    /\ UNCHANGED <<ecs, lastCall, archIds>>

\* Component sizes offered to the constructor.
CtorSizes == {0, 1, 12, 24, 4094, 8188, 8189, 8192, 16376, 16377, 16384}

CtorSchemas ==
    {<<ComponentInfo(1, s, 4)>> : s \in CtorSizes} \cup
    {<<ComponentInfo(1, s, 4), ComponentInfo(2, t, 4)>> :
        s \in CtorSizes, t \in CtorSizes}

NextArchetype ==
    \E comps \in CtorSchemas :
        ConstructArchetype(comps) /\ UNCHANGED <<held, iteration, array, jobSystem>>

SpecArchetype == Init /\ [][NextArchetype]_vars

----------------------------------------------------------------------------
(* Claims.                                                                 *)

\* The free pool as the constructor leaves it.
FreshPool == [i \in 1..MAX_ENTITIES |-> i - 1]

\* Some identity has been destroyed and not handed out again since: the
\* pool is no longer the ascending tail the constructor and the pops leave.
SomeRecycled ==
    \E i \in 1..Len(availableEntities) : \E j \in 1..Len(availableEntities) :
        i < j /\ availableEntities[i] > availableEntities[j]

LiveEntities == {e \in EntityIds : entityLocations[e].valid}

\* C1: in every chunk of every archetype entityIds.size() == header.count
\* <= header.capacity, and each entityIds[i], i < count, has a valid location
\* equal to (archetype id, chunk index, i).
C1_ChunkOccupancy ==
    \A a \in 1..Len(archetypes) : \A c \in 1..Len(archetypes[a].chunks) :
        LET chunk == archetypes[a].chunks[c]
        IN  /\ Len(chunk.entityIds) = chunk.header.count
            /\ chunk.header.count <= chunk.header.capacity
            /\ \A i \in 1..Len(chunk.entityIds) :
                  entityLocations[chunk.entityIds[i]] =
                      EntityLocation(a - 1, c - 1, i - 1, TRUE)

\* C3: GetLivingCount() equals the number of identities with a valid
\* location, and stays within 0..MAX_ENTITIES.
C3_LivingCount ==
    /\ livingEntityCount = Cardinality(LiveEntities)
    /\ livingEntityCount >= 0
    /\ livingEntityCount <= MAX_ENTITIES

\* C3 witness: a DestroyEntity call has returned with entities both live
\* and recycled.
C3_Witness ==
    /\ lastCall.op = "DestroyEntity"
    /\ SomeRecycled
    /\ livingEntityCount > 0
    /\ livingEntityCount < MAX_ENTITIES

\* C9: every registered archetype has entitiesPerChunk >= 1 (a schema too
\* large for one chunk is rejected and leaves nothing behind).
C9_NoEmptyArchetype ==
    \A a \in 1..Len(archetypes) : archetypes[a].entitiesPerChunk >= 1

\* The bytes a read of component comp of entity e yields, by position in
\* the component (a position without a pair holds an indeterminate byte).
ComponentBytes(archs, locs, e, comp) ==
    LET loc    == locs[e]
        arch   == archs[loc.archetypeId + 1]
        chunk  == arch.chunks[loc.chunkIndex + 1]
        offset == GetComponentOffset(arch, comp.id, loc.indexInChunk)
    IN  {<<o - offset, chunk.data[o]>> :
            o \in {o \in DOMAIN chunk.data : o - offset \in 0..(comp.size - 1)}}

\* C2: swap-remove.  When DestroyEntity(E) removes a live E that is not in
\* the last occupied slot of its chunk, the entity L of the last slot ends at
\* E's former slot of the same chunk, entityIds there names L, and every
\* schema component of L reads the bytes it read before.
C2_SwapRemove ==
    [][\A E \in EntityIds :
          (lastCall'.op = "DestroyEntity" /\ entityLocations[E].valid
              /\ DestroyEntity(E)) =>
              LET loc       == entityLocations[E]
                  arch      == archetypes[loc.archetypeId + 1]
                  chunk     == arch.chunks[loc.chunkIndex + 1]
                  lastIndex == chunk.header.count - 1
                  L         == chunk.entityIds[lastIndex + 1]
                  after     == archetypes'[loc.archetypeId + 1]
                                   .chunks[loc.chunkIndex + 1]
              IN  loc.indexInChunk # lastIndex =>
                    /\ entityLocations'[L] =
                          EntityLocation(loc.archetypeId, loc.chunkIndex,
                                         loc.indexInChunk, TRUE)
                    /\ after.entityIds[loc.indexInChunk + 1] = L
                    /\ \A i \in DOMAIN arch.components :
                          ComponentBytes(archetypes', entityLocations', L,
                                         arch.components[i])
                          = ComponentBytes(archetypes, entityLocations, L,
                                           arch.components[i])]_vars

\* C2 witness: after a DestroyEntity call a live entity's component holds a
\* written byte whose source copy is still in the slot just vacated at the
\* end of the same chunk.
C2_Witness ==
    /\ lastCall.op = "DestroyEntity"
    /\ \E L \in LiveEntities :
          LET loc   == entityLocations[L]
              arch  == archetypes[loc.archetypeId + 1]
              chunk == arch.chunks[loc.chunkIndex + 1]
          IN  \E i \in DOMAIN arch.components :
                 LET comp == arch.components[i]
                     here == GetComponentOffset(arch, comp.id, loc.indexInChunk)
                                 + comp.size - 1
                     left == GetComponentOffset(arch, comp.id, chunk.header.count)
                                 + comp.size - 1
                 IN  /\ here \in DOMAIN chunk.data
                     /\ left \in DOMAIN chunk.data
                     /\ chunk.data[here] = chunk.data[left]

\* C4: after DestroyEntity of a live entity E, the next CreateEntity (no
\* other create in between) returns E's id.
C4_ImmediateReuse ==
    [][\A E \in EntityIds :
          (lastCall'.op = "DestroyEntity" /\ entityLocations[E].valid
              /\ DestroyEntity(E)) =>
              \A a \in 0..(Len(archetypes) - 1) :
                  CreateEntityReturns(a)' = E]_vars

NoDuplicates(q) == \A i \in DOMAIN q : \A j \in DOMAIN q : i # j => q[i] # q[j]

\* C5: DestroyEntity on an identity without a valid location (never created,
\* already destroyed, or >= MAX_ENTITIES) changes nothing of the manager, and
\* no identity is ever in the free pool twice.
C5_DestroyNoOp ==
    /\ [][\A e \in 0..MAX_ENTITIES :
             (/\ lastCall'.op = "DestroyEntity"
              /\ (e >= MAX_ENTITIES \/ ~entityLocations[e].valid)
              /\ DestroyEntity(e)) => UNCHANGED ecs]_vars
    /\ [](NoDuplicates(availableEntities)
          /\ \A e \in EntityIds :
                entityLocations[e].valid => e \notin Range(availableEntities))

\* C5 witness: DestroyEntity has returned while every identity is live, so
\* the identity it was given had no valid location.
C5_Witness ==
    /\ lastCall.op = "DestroyEntity"
    /\ LiveEntities = EntityIds

\* C6: CreateEntity with an archetype id >= the number of registered
\* archetypes returns INVALID_ENTITY and leaves the manager unchanged.
C6_InvalidArchetype ==
    [][\A a \in 0..MaxArchetypes :
          (lastCall'.op = "CreateEntity" /\ a >= Len(archetypes)
              /\ CreateEntity(a)) =>
              /\ lastCall'.ret = INVALID_ENTITY
              /\ UNCHANGED ecs]_vars

\* C6 witness: CreateEntity has failed although the free pool is not empty
\* and entities are live.
C6_Witness ==
    /\ lastCall = Call("CreateEntity", INVALID_ENTITY)
    /\ availableEntities # <<>>
    /\ livingEntityCount > 0

\* C7: with the free pool empty CreateEntity fails and changes nothing (no
\* chunk is allocated); after DestroyEntity of a live entity a CreateEntity
\* on a registered archetype succeeds again; a successful create makes one
\* more entity live; never more than MAX_ENTITIES are live.
\* (Each implication "the step is the call => effect" is written "effect,
\* or the step is not the call", which is evaluated faster.)
C7_PoolExhausted ==
    /\ [][(lastCall'.op = "CreateEntity" /\ availableEntities = <<>>) =>
            \A a \in 0..MaxArchetypes :
                \/ lastCall'.ret = INVALID_ENTITY /\ UNCHANGED ecs
                \/ ~CreateEntity(a)]_vars
    /\ [][lastCall'.op = "DestroyEntity" =>
            \/ \A a \in 0..(Len(archetypes) - 1) :
                  CreateEntityReturns(a)' # INVALID_ENTITY
            \/ \A e \in EntityIds :
                  ~(entityLocations[e].valid /\ DestroyEntity(e))]_vars
    /\ [][(lastCall'.op = "CreateEntity" /\ availableEntities # <<>>) =>
            \/ /\ lastCall'.ret \in EntityIds
               /\ entityLocations'[lastCall'.ret].valid
               /\ Cardinality(LiveEntities') = Cardinality(LiveEntities) + 1
            \/ \A a \in 0..(Len(archetypes) - 1) : ~CreateEntity(a)]_vars
    /\ [](/\ Cardinality(LiveEntities) <= MAX_ENTITIES
          /\ (availableEntities = <<>>) = (Cardinality(LiveEntities) = MAX_ENTITIES))

\* C7 witness: CreateEntity has failed with MAX_ENTITIES entities live.
C7_Witness ==
    /\ lastCall = Call("CreateEntity", INVALID_ENTITY)
    /\ availableEntities = <<>>
    /\ Cardinality(LiveEntities) = MAX_ENTITIES

\* C8: RegisterArchetype called with a component multiset that was
\* registered before (in any order, other registrations in between) returns
\* the id returned then and creates no archetype, signature entry or chunk.
\* (The implication "the step is the call => effect" is written "effect, or
\* the step is not the call", which is evaluated faster.)
C8_Dedup ==
    [][lastCall'.op = "RegisterArchetype" =>
          \A comps \in Schemas :
              BagOf(comps) \in DOMAIN archIds =>
                  \/ /\ lastCall'.ret = archIds[BagOf(comps)]
                     /\ archetypes' = archetypes
                     /\ signatureToArchetype' = signatureToArchetype
                  \/ ~RegisterArchetype(comps)]_vars

\* C8 witness: RegisterArchetype has returned id 0 while two archetypes
\* exist, i.e. the first schema was registered again after another one.
C8_Witness ==
    /\ lastCall = Call("RegisterArchetype", 0)
    /\ Len(archetypes) = 2
    /\ Len(archetypes[1].components) = 2

\* C10: a constructed Archetype has entitySize equal to the sum of its
\* component sizes and entitiesPerChunk equal to floor((16384 - header size)
\* / entitySize), which fits 16 bits; two 12-byte components give stride 24
\* and 682 slots.
C10_Stride ==
    localArch # NoArchetype =>
        LET comps == localArch.components
            sum   == IF Len(comps) = 1 THEN comps[1].size
                     ELSE comps[1].size + comps[2].size
        IN  /\ localArch.entitySize = sum
            /\ localArch.entitiesPerChunk * sum <= CHUNK_SIZE - ChunkHeaderSize
            /\ (localArch.entitiesPerChunk + 1) * sum > CHUNK_SIZE - ChunkHeaderSize
            /\ localArch.entitiesPerChunk < U16
            /\ (comps = <<ComponentInfo(1, 12, 4), ComponentInfo(2, 12, 4)>> =>
                    localArch.entitySize = 24 /\ localArch.entitiesPerChunk = 682)

\* C10 witness: the test's schema of two 12-byte components was constructed.
C10_Witness ==
    /\ localArch.components = <<ComponentInfo(1, 12, 4), ComponentInfo(2, 12, 4)>>
    /\ localArch.entitiesPerChunk = 682

\* The occupied (chunk, slot) pairs of an archetype.
OccupiedSlots(arch) ==
    UNION {{Visit(c, i) : i \in 0..(arch.chunks[c + 1].header.count - 1)} :
              c \in 0..(Len(arch.chunks) - 1)}

\* C11: ForEachInArchetype(a, visitor) with a non-mutating visitor invokes
\* the visitor exactly once for each (chunk, slot) with slot < chunk.count,
\* chunks in index order and slots ascending, and for no other slot; the
\* entities visited are the live entities whose location names archetype a;
\* for an out-of-range archetype id the visitor is never invoked.
C11_ForEach ==
    \A a \in 0..MaxArchetypes :
        LET calls == ForEachInArchetype(a)
        IN  IF a >= Len(archetypes) THEN calls = <<>>
            ELSE LET arch == archetypes[a + 1]
                 IN  /\ Range(calls) = OccupiedSlots(arch)
                     /\ Len(calls) = Cardinality(OccupiedSlots(arch))
                     /\ \A i \in DOMAIN calls : \A j \in DOMAIN calls :
                           i < j =>
                             \/ calls[i].chunkIndex < calls[j].chunkIndex
                             \/ /\ calls[i].chunkIndex = calls[j].chunkIndex
                                /\ calls[i].slot < calls[j].slot
                     /\ {arch.chunks[calls[i].chunkIndex + 1]
                              .entityIds[calls[i].slot + 1] : i \in DOMAIN calls}
                           = {e \in LiveEntities :
                                 entityLocations[e].archetypeId = a}

\* C11 witness: after a DestroyEntity call an archetype is visited in two
\* different chunks, one of which has a vacated slot beyond its count.
C11_Witness ==
    /\ lastCall.op = "DestroyEntity"
    /\ \E a \in 0..(Len(archetypes) - 1) :
          LET calls == ForEachInArchetype(a)
          IN  /\ Len(calls) = 2
              /\ calls[1].chunkIndex # calls[2].chunkIndex
              /\ \E c \in DOMAIN archetypes[a + 1].chunks :
                    archetypes[a + 1].chunks[c].header.count
                        < archetypes[a + 1].chunks[c].header.capacity

\* The ids of an archetype's schema.
SchemaIds(arch) == {arch.components[i].id : i \in DOMAIN arch.components}

\* C12: GetComponentData(entity, componentId) returns null exactly when the
\* entity id is out of range, the entity has no valid location, or
\* componentId is not in the schema of the entity's archetype; otherwise it
\* returns the address, inside the data of the chunk that holds the entity,
\* at GetComponentOffset(componentId, the entity's current indexInChunk).
C12_GetComponentData ==
    \A e \in 0..MAX_ENTITIES : \A id \in ComponentIds \cup {AbsentId} :
        LET p == GetComponentData(e, id)
        IN  IF \/ e >= MAX_ENTITIES
               \/ ~entityLocations[e].valid
               \/ id \notin SchemaIds(archetypes[entityLocations[e].archetypeId + 1])
            THEN p.null
            ELSE LET loc   == entityLocations[e]
                     arch  == archetypes[loc.archetypeId + 1]
                     chunk == arch.chunks[loc.chunkIndex + 1]
                 IN  /\ ~p.null
                     /\ p.archetypeId = loc.archetypeId
                     /\ p.chunkIndex = loc.chunkIndex
                     /\ chunk.entityIds[loc.indexInChunk + 1] = e
                     /\ p.offset = GetComponentOffset(arch, id, loc.indexInChunk)
                     /\ p.offset \in 0..(DataBytes - 1)

\* C12 witness: an entity has just been destroyed, and a live entity in the
\* second slot of its chunk has its second component at byte 12282 and no
\* component of the absent id.
C12_Witness ==
    /\ lastCall.op = "DestroyEntity"
    /\ \E d \in EntityIds : ~entityLocations[d].valid
    /\ \E e \in LiveEntities :
          /\ entityLocations[e].indexInChunk = 1
          /\ GetComponentData(e, MeshB.id) =
                 Pointer(entityLocations[e].archetypeId,
                         entityLocations[e].chunkIndex, 12282)
          /\ GetComponentData(e, AbsentId) = nullptr

\* The bytes of the per-chunk arrays of the first k - 1 schema components.
RECURSIVE ArraysBefore(_, _, _)
ArraysBefore(components, k, entitiesPerChunk) ==
    IF k <= 1 THEN 0
    ELSE components[k - 1].size * entitiesPerChunk
            + ArraysBefore(components, k - 1, entitiesPerChunk)

\* The offset C13 states for an archetype, a component id and a slot.
StatedOffset(arch, id, slot) ==
    IF id \notin SchemaIds(arch) THEN NotFound
    ELSE LET k == Min({i \in DOMAIN arch.components : arch.components[i].id = id})
         IN  ArraysBefore(arch.components, k, arch.entitiesPerChunk)
                + slot * arch.components[k].size

\* C13: GetComponentOffset(componentId, slot) is, for a schema component,
\* the sum over the components before it of size * entitiesPerChunk, plus
\* slot * its own size, and "not found" for an id outside the schema; it
\* depends on the schema and entitiesPerChunk only (not on the chunks), and
\* no CreateEntity or DestroyEntity changes it.
C13_Offset ==
    /\ [](\A a \in DOMAIN archetypes :
            \A id \in ComponentIds \cup {AbsentId} :
              \A slot \in 0..MAX_ENTITIES :
                /\ GetComponentOffset(archetypes[a], id, slot)
                      = StatedOffset(archetypes[a], id, slot)
                /\ GetComponentOffset(archetypes[a], id, slot)
                      = GetComponentOffset(
                            [archetypes[a] EXCEPT !.chunks = <<>>], id, slot))
    /\ [][(lastCall'.op \in {"CreateEntity", "DestroyEntity"}
             /\ archetypes' # archetypes) =>
            \A a \in DOMAIN archetypes :
              \A id \in ComponentIds \cup {AbsentId} :
                \A slot \in 0..MAX_ENTITIES :
                   GetComponentOffset(archetypes'[a], id, slot)
                     = GetComponentOffset(archetypes[a], id, slot)]_vars

\* C13 witness: after a DestroyEntity call the three-component archetype
\* still holds entities, and its third component of slot 1 is at byte
\* 12 * 584 + 12 * 584 + 4.
C13_Witness ==
    /\ lastCall.op = "DestroyEntity"
    /\ livingEntityCount > 0
    /\ \E a \in DOMAIN archetypes :
          /\ archetypes[a].components = <<Position, Velocity, Health>>
          /\ GetComponentOffset(archetypes[a], Health.id, 1) = 14020

TimesFree(e) ==
    Cardinality({i \in DOMAIN availableEntities : availableEntities[i] = e})

\* C15: every identity is either Free (once in the free pool, location
\* invalid) or Allocated (not in the pool, location valid); an identity
\* becomes Allocated only by a CreateEntity that returns it and Free only by
\* a DestroyEntity called on it, and those calls do make it so; hence
\* CreateEntity never returns an identity that is live.
C15_IdentityLifecycle ==
    /\ [](\A e \in EntityIds :
            TimesFree(e) = IF entityLocations[e].valid THEN 0 ELSE 1)
    /\ [][(lastCall'.op = "CreateEntity" \/ entityLocations' # entityLocations) =>
            \A e \in EntityIds :
              /\ (~entityLocations[e].valid /\ entityLocations'[e].valid) =>
                    lastCall' = Call("CreateEntity", e)
              /\ (entityLocations[e].valid /\ ~entityLocations'[e].valid) =>
                    (lastCall'.op = "DestroyEntity" /\ DestroyEntity(e))
              /\ lastCall' = Call("CreateEntity", e) =>
                    (~entityLocations[e].valid /\ entityLocations'[e].valid)]_vars
    /\ [][\A e \in EntityIds :
            (lastCall'.op = "DestroyEntity" /\ entityLocations[e].valid
               /\ DestroyEntity(e)) =>
                (~entityLocations'[e].valid /\ TimesFree(e)' = 1)]_vars

\* C15 witness: CreateEntity has returned identity 0 while identity 1 is
\* live; 1 left the pool after 0 did, so 0 has been Allocated, Free and
\* Allocated again.
C15_Witness ==
    /\ lastCall = Call("CreateEntity", 0)
    /\ entityLocations[0].valid
    /\ entityLocations[1].valid

\* C16: RegisterArchetype returns a previously issued archetype id only if
\* the given components (ids and descriptor sizes) are those of that
\* archetype; for components different from every registered schema it
\* creates a new archetype with a new id.
C16_NoFalseMatch ==
    [][\A comps \in CollideSchemas :
          (lastCall'.op = "RegisterArchetype" /\ RegisterArchetype(comps)) =>
              /\ lastCall'.ret < Len(archetypes) =>
                    BagOf(archetypes[lastCall'.ret + 1].components) = BagOf(comps)
              /\ (\A a \in DOMAIN archetypes :
                     BagOf(archetypes[a].components) # BagOf(comps)) =>
                    /\ lastCall'.ret = Len(archetypes)
                    /\ Len(archetypes') = Len(archetypes) + 1
                    /\ archetypes'[Len(archetypes')].components = comps]_vars

\* C16 with a component set taken as its set of ids only.
C16_NoFalseMatchOfIds ==
    [][\A comps \in CollideSchemas :
          (lastCall'.op = "RegisterArchetype" /\ RegisterArchetype(comps)) =>
              (lastCall'.ret < Len(archetypes) =>
                  SchemaIds(archetypes[lastCall'.ret + 1])
                     = {comps[i].id : i \in DOMAIN comps})]_vars

\* C17: identities carry no generation tag.  Once the identity of a handle
\* kept from a destroyed entity has been returned again by CreateEntity,
\* GetLocation of the stale handle reports a valid location, which has no
\* field besides archetype, chunk, slot and validity, and GetComponentData
\* resolves it to the slot of the new entity; and such a state is reachable.
C17_StaleAlias ==
    \A h \in held :
        entityLocations[h].valid =>
            LET loc   == GetLocation(h)
                arch  == archetypes[loc.archetypeId + 1]
                chunk == arch.chunks[loc.chunkIndex + 1]
            IN  /\ loc.valid
                /\ DOMAIN loc =
                      {"archetypeId", "chunkIndex", "indexInChunk", "valid"}
                /\ loc.indexInChunk < chunk.header.count
                /\ chunk.entityIds[loc.indexInChunk + 1] = h
                /\ \A i \in DOMAIN arch.components :
                      GetComponentData(h, arch.components[i].id) =
                         Pointer(loc.archetypeId, loc.chunkIndex,
                                 GetComponentOffset(arch, arch.components[i].id,
                                                    loc.indexInChunk))

\* C17 witness: CreateEntity has just returned an identity of which a
\* subsystem holds a handle from an entity destroyed earlier, and the new
\* entity is not where the old one was created (slot 0 of chunk 0).
C17_Witness ==
    \E h \in held :
        /\ lastCall = Call("CreateEntity", h)
        /\ GetLocation(h).valid
        /\ GetLocation(h).indexInChunk = 1
        /\ h = 0

\* The entities the caller inserted and has not removed.
Remaining == {inserted[i].entity : i \in DOMAIN inserted}

\* C18: after any sequence of InsertData (of entities not stored),
\* RemoveData and EntityDestroyed, packedData, entityToIndex and
\* indexToEntity have the same size, and indexToEntity[entityToIndex[e]] = e
\* for every stored entity e.
C18_SparseSetIndex ==
    /\ Len(packedData) = Cardinality(DOMAIN entityToIndex)
    /\ Len(packedData) = Cardinality(DOMAIN indexToEntity)
    /\ \A e \in DOMAIN entityToIndex :
          /\ entityToIndex[e] \in DOMAIN indexToEntity
          /\ indexToEntity[entityToIndex[e]] = e

\* C18 witness: EntityDestroyed has returned, and of the two entities left
\* the one inserted first is at packed index 1: the other was moved into
\* the slot of a removed entity.
C18_Witness ==
    /\ lastCall.op = "EntityDestroyed"
    /\ Len(inserted) = 2
    /\ indexToEntity[1] = inserted[1].entity
    /\ indexToEntity[0] = inserted[2].entity

\* C19: sparse-set parity.  After inserting distinct entities and removing
\* any of them in any order, Size() is the number of remaining entities,
\* HasData is true exactly for the remaining ones, and GetData of each
\* remaining entity returns the value inserted for it.
C19_SparseSetParity ==
    /\ Size = Len(inserted)
    /\ Size = Cardinality(Remaining)
    /\ \A e \in ArrayEntities : HasData(e) = (e \in Remaining)
    /\ \A i \in DOMAIN inserted :
          GetData(inserted[i].entity) = inserted[i].value

\* C19 witness: RemoveData has returned, and of the two entities left, which
\* hold different values, the one inserted later is at packed index 0.
C19_Witness ==
    /\ lastCall.op = "RemoveData"
    /\ Len(inserted) = 2
    /\ inserted[1].value # inserted[2].value
    /\ entityToIndex[inserted[2].entity] = 0
    /\ GetData(inserted[2].entity) = inserted[2].value

\* C20: WaitAll returns only when every job PushJob accepted before the
\* call has finished executing, for any number of worker threads and any
\* interleaving of the workers with the pushing thread: when it returns,
\* every accepted job has run and the counter equals their number.
C20_WaitAll ==
    mainPc = "returned" =>
        /\ \A j \in 1..pushed : j \in finished
        /\ counter = pushed

\* C20 witness: WaitAll has returned after three jobs ran on two workers.
C20_Witness ==
    /\ mainPc = "returned"
    /\ pushed = 3
    /\ counter = 3
    /\ Cardinality(WorkerIds) = 2

\* The number of places of the job queue that hold job j.
Occurrences(j) == Cardinality({i \in DOMAIN jobs : jobs[i] = j})

\* The workers that have taken job j off the queue and not yet run it.
Holders(j) == {w \in WorkerIds : workers[w].pc = "run" /\ workers[w].task = j}

\* C21: every job PushJob accepted is executed exactly once, by exactly one
\* worker, under any interleaving: an accepted job is at every moment in
\* exactly one place (once in the queue, or taken by one worker, or
\* executed), the number of executions equals the number of jobs executed,
\* no job is left when the JobSystem is destroyed, and the future of an
\* executed job yields that job's return value.
C21_ExactlyOnce ==
    /\ \A j \in 1..pushed :
          Occurrences(j) + Cardinality(Holders(j))
              + (IF j \in finished THEN 1 ELSE 0) = 1
    /\ finished \subseteq 1..pushed
    /\ counter = Cardinality(finished)
    /\ mainPc = "destroyed" => finished = 1..pushed
    /\ DOMAIN futures = finished
    /\ \A j \in finished : futures[j] = ReturnOf(j)

\* C21 witness: job 1 has been executed and its future holds its value,
\* while two workers have taken jobs 3 and 2, the first worker the later
\* job.
C21_Witness ==
    /\ finished = {1}
    /\ futures[1] = ReturnOf(1)
    /\ Cardinality(WorkerIds) = 2
    /\ workers[1] = [pc |-> "run", task |-> 3]
    /\ workers[2] = [pc |-> "run", task |-> 2]

\* C23: archetypes and chunks are high-water-mark allocations.  In every
\* step the number of archetypes does not decrease, every archetype keeps
\* its id and its schema (an id once returned denotes the same schema for
\* good), its number of chunks does not decrease and every chunk keeps its
\* owner and its capacity, also when DestroyEntity empties the chunk.
C23_HighWater ==
    [][/\ Len(archetypes') >= Len(archetypes)
       /\ \A a \in DOMAIN archetypes :
             /\ archetypes'[a].id = archetypes[a].id
             /\ archetypes'[a].components = archetypes[a].components
             /\ archetypes'[a].entitiesPerChunk = archetypes[a].entitiesPerChunk
             /\ Len(archetypes'[a].chunks) >= Len(archetypes[a].chunks)
             /\ \A c \in DOMAIN archetypes[a].chunks :
                   /\ archetypes'[a].chunks[c].header.capacity =
                          archetypes[a].chunks[c].header.capacity
                   /\ archetypes'[a].chunks[c].header.archetypeId =
                          archetypes[a].chunks[c].header.archetypeId]_vars

\* C23 witness: DestroyEntity has emptied the second chunk of an archetype
\* of two entities per chunk, and the chunk is still there.
C23_Witness ==
    /\ lastCall.op = "DestroyEntity"
    /\ \E a \in DOMAIN archetypes :
          /\ Len(archetypes[a].chunks) = 2
          /\ archetypes[a].chunks[2].header.count = 0
          /\ archetypes[a].chunks[2].header.capacity = 2
          /\ archetypes[a].chunks[1].header.count = 2

\* C24: every registered archetype owns at least one chunk at all times,
\* every chunk of its pool has header.archetypeId equal to the archetype's
\* id and header.capacity equal to its entitiesPerChunk, and the first
\* chunk is allocated by RegisterArchetype itself, empty.
C24_ChunkOwnership ==
    /\ [](\A a \in DOMAIN archetypes :
            /\ archetypes[a].id = a - 1
            /\ Len(archetypes[a].chunks) >= 1
            /\ \A c \in DOMAIN archetypes[a].chunks :
                  /\ archetypes[a].chunks[c].header.archetypeId = archetypes[a].id
                  /\ archetypes[a].chunks[c].header.capacity =
                         archetypes[a].entitiesPerChunk)
    /\ [][Len(archetypes') > Len(archetypes) =>
            /\ lastCall'.op = "RegisterArchetype"
            /\ Len(archetypes') = Len(archetypes) + 1
            /\ Len(archetypes'[Len(archetypes')].chunks) = 1
            /\ archetypes'[Len(archetypes')].chunks[1].header.count = 0
            /\ archetypes'[Len(archetypes')].chunks[1].entityIds = <<>>]_vars

\* C24 witness: the archetype of id 1 holds two entities per chunk and has
\* grown a second chunk, beside a 584-per-chunk archetype with one chunk.
C24_Witness ==
    /\ Len(archetypes) = 2
    /\ archetypes[1].entitiesPerChunk = 584
    /\ Len(archetypes[1].chunks) = 1
    /\ Len(archetypes[2].chunks) = 2
    /\ archetypes[2].chunks[2].header =
           [archetypeId |-> 1, count |-> 1, capacity |-> 2]

\* C25: first-fit placement.  A successful CreateEntity(a) puts the new
\* entity at slot = previous count of the lowest-index chunk of archetype a
\* with count < capacity; a chunk is appended only when every chunk of a is
\* full (none has count < capacity), and the entity then gets slot 0 of the
\* new chunk.  No existing entity's location or component bytes change.
C25_FirstFit ==
    [][\A a \in 0..(Len(archetypes) - 1) :
          (lastCall'.op = "CreateEntity" /\ lastCall'.ret # INVALID_ENTITY
              /\ CreateEntity(a)) =>
              LET id     == lastCall'.ret
                  arch   == archetypes[a + 1]
                  chunks == arch.chunks
                  loc    == entityLocations'[id]
                  HasRoom(c) == chunks[c + 1].header.count
                                   < chunks[c + 1].header.capacity
              IN  /\ loc.valid
                  /\ loc.archetypeId = a
                  /\ \/ \E c \in 0..(Len(chunks) - 1) :
                           /\ HasRoom(c)
                           /\ \A d \in 0..(c - 1) : ~HasRoom(d)
                           /\ loc.chunkIndex = c
                           /\ loc.indexInChunk = chunks[c + 1].header.count
                           /\ Len(archetypes'[a + 1].chunks) = Len(chunks)
                     \/ /\ \A c \in 0..(Len(chunks) - 1) : ~HasRoom(c)
                        /\ Len(archetypes'[a + 1].chunks) = Len(chunks) + 1
                        /\ loc.chunkIndex = Len(chunks)
                        /\ loc.indexInChunk = 0
                  /\ archetypes'[a + 1].chunks[loc.chunkIndex + 1]
                         .entityIds[loc.indexInChunk + 1] = id
                  /\ \A o \in LiveEntities :
                        /\ entityLocations'[o] = entityLocations[o]
                        /\ \A i \in DOMAIN arch.components :
                              ComponentBytes(archetypes', entityLocations', o,
                                             arch.components[i])
                              = ComponentBytes(archetypes, entityLocations, o,
                                               arch.components[i])]_vars

\* C25 witness: with one entity in each of two chunks, CreateEntity has put
\* identity 0 at slot 1 of the first chunk, and a component byte written
\* before is in place.
C25_Witness ==
    /\ lastCall = Call("CreateEntity", 0)
    /\ entityLocations[0] = EntityLocation(0, 0, 1, TRUE)
    /\ Len(archetypes[1].chunks) = 2
    /\ archetypes[1].chunks[2].header.count = 1
    /\ WrittenBytes(1) = 1

\* The number of identities CreateEntity returns before it returns e: the
\* identities ahead of e in the free pool (-1 when e is not free).
Ahead(e) ==
    IF \E i \in DOMAIN availableEntities : availableEntities[i] = e
    THEN Cardinality({x \in EntityIds :
            \E i, j \in DOMAIN availableEntities :
                /\ availableEntities[i] = x
                /\ availableEntities[j] = e
                /\ i < j})
    ELSE -1

C27_RemoveAbsent ==
    [][\A e \in ArrayEntities :
          (\/ lastCall'.op = "RemoveData" /\ RemoveData(e)
           \/ lastCall'.op = "EntityDestroyed" /\ EntityDestroyed(e)) =>
              IF HasData(e)
              THEN /\ Size' = Size - 1
                   /\ ~HasData(e)'
                   /\ \A o \in ArrayEntities \ {e} : HasData(o)' = HasData(o)
              ELSE UNCHANGED <<packedData, entityToIndex, indexToEntity>>]_vars

\* C27 witness: EntityDestroyed has returned with two entities stored, of
\* which 99 is none: it was removed by the call or not stored at the call.
C27_Witness ==
    /\ lastCall.op = "EntityDestroyed"
    /\ Size = 2
    /\ ~HasData(99)
    /\ HasData(10)

\* The byte range of component k of arch at a slot: first byte, end.
RangeOf(arch, k, slot) ==
    LET offset == GetComponentOffset(arch, arch.components[k].id, slot)
    IN  <<offset, offset + arch.components[k].size>>

\* Two byte ranges have no byte in common.
Disjoint(r, t) == r[2] <= t[1] \/ t[2] <= r[1]

\* The layout of arch is collision-free: the ranges of all schema
\* components at all slots below entitiesPerChunk are pairwise disjoint and
\* inside the data array.
CollisionFree(arch) ==
    LET cells == (DOMAIN arch.components) \X (0..(arch.entitiesPerChunk - 1))
    IN  /\ \A x \in cells :
              /\ RangeOf(arch, x[1], x[2])[1] >= 0
              /\ RangeOf(arch, x[1], x[2])[2] <= DataBytes
        /\ \A x \in cells : \A y \in cells \ {x} :
              Disjoint(RangeOf(arch, x[1], x[2]), RangeOf(arch, y[1], y[2]))

\* A step that creates an archetype gives it a collision-free layout.
NewLayoutCollisionFree ==
    Len(archetypes') > Len(archetypes) =>
        CollisionFree(archetypes'[Len(archetypes')])

\* A store to a component of a live entity changes no byte of a component
\* of another entity, nor of another component of the same entity.
StoresKeepApart ==
    \A e \in EntityIds, compId \in WideStoredIds, v \in ByteVals :
        \A k \in WritePositions(e, compId) :
            WriteComponent(e, compId, k, v) =>
                \A o \in LiveEntities :
                    LET arch == archetypes[entityLocations[o].archetypeId + 1]
                    IN  \A i \in DOMAIN arch.components :
                           (o # e \/ arch.components[i].id # compId) =>
                              ComponentBytes(archetypes', entityLocations', o,
                                             arch.components[i])
                              = ComponentBytes(archetypes, entityLocations, o,
                                               arch.components[i])

\* C28: the structure-of-arrays layout is collision-free.  Every archetype
\* RegisterArchetype creates has a collision-free layout, and so a store to
\* a component of a live entity changes no byte of a component of another
\* entity, nor of another component of the same entity.
C28_NoAlias ==
    /\ [][NewLayoutCollisionFree]_vars
    /\ [][StoresKeepApart]_vars

\* C28 for the archetypes that hold at least one entity per chunk, those
\* C9 allows.
C28_NoAliasWithinCapacity ==
    /\ [][NewLayoutCollisionFree]_vars
    /\ [][(\A a \in DOMAIN archetypes : archetypes[a].entitiesPerChunk >= 1)
            => StoresKeepApart]_vars

\* The number of callbacks a ForEachInArchetype call has made for entity e.
TimesVisited(e) ==
    Cardinality({k \in DOMAIN iteration.visited :
                    iteration.visited[k].entity = e})

\* C29: when the callback of ForEachInArchetype destroys the entity of the
\* slot it is visiting, the call still invokes it exactly once for every
\* entity of the archetype that was live when the call started, and never
\* for a slot at or beyond the chunk's current count.
C29_VisitWhileDestroying ==
    /\ [](iteration.pc = "returned" =>
            \A e \in iteration.live : TimesVisited(e) = 1)
    /\ [](\A e \in EntityIds : TimesVisited(e) <= 1)
    /\ [][Len(iteration'.visited) > Len(iteration.visited) =>
            LET v == iteration'.visited[Len(iteration'.visited)]
            IN  v.slot < archetypes[iteration.archetypeId + 1]
                             .chunks[v.chunkIndex + 1].header.count]_vars

\* C29 for a callback that destroys nothing.
C29_VisitWithoutDestroying ==
    [](iteration.pc = "returned" /\ iteration.doomed = {} =>
         \A e \in iteration.live : TimesVisited(e) = 1)

\* The jobs PushJob has counted: those it has queued and the one it holds
\* between activeJobs++ and jobs.emplace.
Accepted == pushed + (IF mainPc = "push_emplace" THEN 1 ELSE 0)

\* The jobs a worker has run and counted off with activeJobs--.
CountedOff ==
    Cardinality(finished)
        - Cardinality({w \in WorkerIds : workers[w].pc = "complete"})

\* activeJobs is the number of accepted jobs that are not yet counted off,
\* and is never negative.
ActiveJobsExact ==
    /\ activeJobs >= 0
    /\ activeJobs = Accepted - CountedOff

\* Every job PushJob has queued is executed in the end.
EveryJobRuns == \A j \in 1..MaxJobs : (pushed >= j) ~> (j \in finished)

\* A WaitAll call returns in the end.
WaitAllReturns ==
    (mainPc \in {"waitall", "waitall_blocked"}) ~> (mainPc = "returned")

\* C30: the JobSystem has no deadlock and loses no wake-up: under fair
\* scheduling and with terminating jobs, every job accepted by PushJob is
\* executed in the end and a thread blocked in WaitAll returns in the end,
\* for any interleaving of PushJob, the worker loop and WaitAll; activeJobs
\* always equals the number of accepted jobs not yet finished (a job counts
\* as accepted from activeJobs++ and as finished from its activeJobs--) and
\* never goes negative.
C30_NoLostWakeup ==
    /\ []ActiveJobsExact
    /\ EveryJobRuns
    /\ WaitAllReturns

\* C30 witness: the owner is blocked in WaitAll while one worker runs the
\* last job and another worker is blocked on the empty queue.
C30_Witness ==
    /\ mainPc = "waitall_blocked"
    /\ activeJobs = 1
    /\ jobs = <<>>
    /\ \E w \in WorkerIds : workers[w].pc = "run"
    /\ \E w \in WorkerIds : workers[w].pc = "blocked"

====
